---- MODULE Spec2Model ----
(***************************************************************************)
(* Instruction Execution Engine of auto-ui-test: schema validation         *)
(* (api/schema.js), the hybrid adapter (api/adapter.js), the planner       *)
(* client (api/llm-client.js) and the workflow engine with its             *)
(* instruction cache (api/workflow.js).                                    *)
(***************************************************************************)
EXTENDS Integers, Sequences, FiniteSets, TLC

(***************************************************************************)
(* JavaScript values.  Every value is a record [t, s, n]: its typeof tag,  *)
(* its string payload and its numeric payload.                             *)
(***************************************************************************)
Undef == [t |-> "undefined", s |-> "", n |-> 0]
Null == [t |-> "null", s |-> "", n |-> 0]
Str(x) == [t |-> "string", s |-> x, n |-> 0]
Num(k) == [t |-> "number", s |-> "", n |-> k]
True == [t |-> "boolean", s |-> "", n |-> 1]

\* JavaScript truthiness: undefined, null, "" and 0 are falsy.
Truthy(v) ==
  /\ v.t \notin {"undefined", "null"}
  /\ ~(v.t = "string" /\ v.s = "")
  /\ ~(v.t = "number" /\ v.n = 0)
  /\ ~(v.t = "boolean" /\ v.n = 0)

IsString(v) == v.t = "string"

(***************************************************************************)
(* Instructions.  params is a record of the ten parameter fields the       *)
(* handlers and the validator read, plus kind: the JavaScript type of the  *)
(* params value itself ("object", or "undefined" when the field is         *)
(* missing, or "string" for a truthy non-object).                          *)
(***************************************************************************)
NoParams ==
  [kind |-> "object", url |-> Undef, semantic_locator |-> Undef,
   fallback_selector |-> Undef, value |-> Undef, assertion |-> Undef,
   timeout |-> Undef, selector |-> Undef, condition |-> Undef,
   key |-> Undef, direction |-> Undef]

MissingParams == [NoParams EXCEPT !.kind = "undefined"]

Instr(id, action, params, desc) ==
  [step_id |-> id, action_type |-> action, params |-> params,
   description |-> desc, preNavigated |-> FALSE]

ParamsTruthy(p) == p.kind \in {"object", "string"}

(***************************************************************************)
(* api/schema.js                                                           *)
(***************************************************************************)
SUPPORTED_ACTIONS ==
  <<"navigate", "click", "input", "verify", "wait", "select", "hover",
    "press", "scroll">>

SupportedSet == {SUPPORTED_ACTIONS[i] : i \in 1..Len(SUPPORTED_ACTIONS)}

ErrIf(cond, msg) == IF cond THEN <<msg>> ELSE <<>>

\* validateActionParams asking click and hover for both locators.
validateActionParamsBothLocators(actionType, params) ==
  CASE actionType = "navigate" ->
         ErrIf(~Truthy(params.url) \/ ~IsString(params.url),
               "navigate: url required")
    [] actionType \in {"click", "hover"} ->
         ErrIf(~Truthy(params.semantic_locator) \/ ~Truthy(params.fallback_selector),
               "click/hover: locator required")
    [] actionType = "input" ->
         ErrIf(~Truthy(params.semantic_locator) /\ ~Truthy(params.fallback_selector),
               "input: locator required")
         \o ErrIf(params.value.t \in {"undefined", "null"}, "input: value required")
    [] actionType = "verify" ->
         ErrIf(~Truthy(params.assertion) \/ ~IsString(params.assertion),
               "verify: assertion required")
    [] actionType = "wait" ->
         ErrIf(~Truthy(params.timeout) /\ ~Truthy(params.selector)
                 /\ ~Truthy(params.condition),
               "wait: timeout, selector or condition required")
    [] actionType = "select" ->
         ErrIf(~Truthy(params.semantic_locator) /\ ~Truthy(params.fallback_selector),
               "select: locator required")
         \o ErrIf(~Truthy(params.value), "select: value required")
    [] actionType = "press" ->
         ErrIf(~Truthy(params.key) \/ ~IsString(params.key), "press: key required")
    [] actionType = "scroll" ->
         ErrIf(~Truthy(params.direction), "scroll: direction required")
    [] OTHER -> <<>>

validateActionParams(actionType, params) ==
  CASE actionType = "navigate" ->
         ErrIf(~Truthy(params.url) \/ ~IsString(params.url),
               "navigate: url required")
    [] actionType \in {"click", "hover"} ->
         ErrIf(~Truthy(params.semantic_locator) /\ ~Truthy(params.fallback_selector),
               "click/hover: locator required")
    [] actionType = "input" ->
         ErrIf(~Truthy(params.semantic_locator) /\ ~Truthy(params.fallback_selector),
               "input: locator required")
         \o ErrIf(params.value.t \in {"undefined", "null"}, "input: value required")
    [] actionType = "verify" ->
         ErrIf(~Truthy(params.assertion) \/ ~IsString(params.assertion),
               "verify: assertion required")
    [] actionType = "wait" ->
         ErrIf(~Truthy(params.timeout) /\ ~Truthy(params.selector)
                 /\ ~Truthy(params.condition),
               "wait: timeout, selector or condition required")
    [] actionType = "select" ->
         ErrIf(~Truthy(params.semantic_locator) /\ ~Truthy(params.fallback_selector),
               "select: locator required")
         \o ErrIf(~Truthy(params.value), "select: value required")
    [] actionType = "press" ->
         ErrIf(~Truthy(params.key) \/ ~IsString(params.key), "press: key required")
    [] actionType = "scroll" ->
         ErrIf(~Truthy(params.direction), "scroll: direction required")
    [] OTHER -> <<>>

\* validateInstructionErrors without the per-action rules.
validateInstructionErrorsTopLevelOnly(instruction) ==
  ErrIf(instruction.step_id.t # "number", "step_id must be a number")
  \o (IF ~Truthy(instruction.action_type)
        THEN <<"action_type must not be empty">>
        ELSE ErrIf(~(IsString(instruction.action_type)
                       /\ instruction.action_type.s \in SupportedSet),
                   "unsupported action_type"))
  \o ErrIf(~ParamsTruthy(instruction.params) \/ instruction.params.kind # "object",
           "params must be an object")
  \o ErrIf(~Truthy(instruction.description) \/ ~IsString(instruction.description),
           "description must be a non-empty string")

validateInstructionErrors(instruction) ==
  ErrIf(instruction.step_id.t # "number", "step_id must be a number")
  \o (IF ~Truthy(instruction.action_type)
        THEN <<"action_type must not be empty">>
        ELSE ErrIf(~(IsString(instruction.action_type)
                       /\ instruction.action_type.s \in SupportedSet),
                   "unsupported action_type"))
  \o ErrIf(~ParamsTruthy(instruction.params) \/ instruction.params.kind # "object",
           "params must be an object")
  \o ErrIf(~Truthy(instruction.description) \/ ~IsString(instruction.description),
           "description must be a non-empty string")
  \o (IF ParamsTruthy(instruction.params) /\ Truthy(instruction.action_type)
        THEN validateActionParams(instruction.action_type.s, instruction.params)
        ELSE <<>>)

\* validateInstruction returning after the first violation.
validateInstructionFirstOnly(instruction) ==
  LET errors == validateInstructionErrors(instruction)
  IN  [valid |-> Len(errors) = 0,
       errors |-> IF Len(errors) = 0 THEN errors ELSE <<Head(errors)>>]

validateInstruction(instruction) ==
  LET errors == validateInstructionErrors(instruction)
  IN  [valid |-> Len(errors) = 0, errors |-> errors]

RECURSIVE streamErrors(_)
streamErrors(instructions) ==
  IF instructions = <<>> THEN <<>>
  ELSE LET result == validateInstruction(Head(instructions))
           sid == Head(instructions).step_id
       IN  (IF ~result.valid
              THEN <<[step_id |-> IF Truthy(sid) THEN sid ELSE Str("unknown"),
                      errors |-> result.errors]>>
              ELSE <<>>)
           \o streamErrors(Tail(instructions))

\* isArray: whether the value handed in is a JavaScript array at all.
validateInstructionStream(isArray, instructions) ==
  IF ~isArray
    THEN [valid |-> FALSE,
          errors |-> <<[step_id |-> Num(-1), errors |-> <<"stream must be an array">>]>>]
  ELSE IF Len(instructions) = 0
    THEN [valid |-> FALSE,
          errors |-> <<[step_id |-> Num(-1), errors |-> <<"stream must not be empty">>]>>]
  ELSE LET allErrors == streamErrors(instructions)
       IN  [valid |-> Len(allErrors) = 0, errors |-> allErrors]

(***************************************************************************)
(* api/adapter.js: the action handlers.                                    *)
(*                                                                         *)
(* ctx is the execution context: hasPage tells whether context.page is     *)
(* set.  env is what the browser and the semantic resolver answer during   *)
(* one instruction: present/visible describe the element the instruction's *)
(* selector addresses, fail names the page primitive that throws ("none"   *)
(* when none does), ai is the resolver's answer ("ok", "throw", "false" or *)
(* "falsy"), text and markup are the keywords found in the page's inner    *)
(* text and in its markup.                                                 *)
(*                                                                         *)
(* A handler's outcome records whether it threw, the message, the value    *)
(* returned, the external calls it made in order, and the millisecond      *)
(* arguments of its waits.                                                 *)
(***************************************************************************)
Ret(ret, calls, ms) ==
  [thrown |-> FALSE, msg |-> "", ret |-> ret, calls |-> calls, ms |-> ms]

Thr(msg, calls, ms) ==
  [thrown |-> TRUE, msg |-> msg, ret |-> "", calls |-> calls, ms |-> ms]

\* A call through an unset page, or a destructuring of missing params,
\* is a TypeError raised before anything is called.
TypeErr(calls, ms) == Thr("TypeError", calls, ms)

PageFails(env, call) == env.fail = call

\* Mutant: ai(...) is not awaited, its rejection is lost.
SemanticTierUnawaited(env, semantic_locator, calls, failMsg) ==
  IF Truthy(semantic_locator)
    THEN Ret("undefined", calls \o <<"ai">>, <<>>)
    ELSE Thr(failMsg, calls, <<>>)

\* Mutant: ai(...) is called whether or not a semantic_locator is given.
SemanticTierLocatorUnchecked(env, semantic_locator, calls, failMsg) ==
  IF env.ai = "throw"
    THEN Thr("ai error", calls \o <<"ai">>, <<>>)
    ELSE Ret("undefined", calls \o <<"ai">>, <<>>)

\* The semantic tier shared by click, input, select and hover: ai(...) when
\* a semantic_locator is given, a resolution error otherwise.
SemanticTier(env, semantic_locator, calls, failMsg) ==
  IF Truthy(semantic_locator)
    THEN IF env.ai = "throw"
           THEN Thr("ai error", calls \o <<"ai">>, <<>>)
           ELSE Ret("undefined", calls \o <<"ai">>, <<>>)
    ELSE Thr(failMsg, calls, <<>>)

handleNavigate(ctx, env, params) ==
  IF params.kind = "undefined" \/ ~ctx.hasPage THEN TypeErr(<<>>, <<>>)
  ELSE IF ~(IsString(params.url) /\ Truthy(params.url)) \/ PageFails(env, "goto")
    THEN Thr("goto failed", <<"goto">>, <<>>)
  ELSE Ret("undefined", <<"goto">>, <<>>)

\* Mutant: no forced click of an element that is present but not visible.
ClickVisibleOnly(ctx, env, params) ==
  IF ~ctx.hasPage THEN [done |-> FALSE, calls |-> <<>>]
  ELSE IF PageFails(env, "visible.count")
    THEN [done |-> FALSE, calls |-> <<"waitFor", "visible.count">>]
  ELSE IF env.visible
    THEN [done |-> ~PageFails(env, "click"),
          calls |-> <<"waitFor", "visible.count", "click">>]
  ELSE [done |-> FALSE, calls |-> <<"waitFor", "visible.count">>]

\* The deterministic tier of handleClick: done tells whether it returned
\* (the click was performed), calls what it called.
ClickDeterministic(ctx, env, params) ==
  IF ~ctx.hasPage THEN [done |-> FALSE, calls |-> <<>>]
  ELSE IF PageFails(env, "visible.count")
    THEN [done |-> FALSE, calls |-> <<"waitFor", "visible.count">>]
  ELSE IF env.visible
    THEN [done |-> ~PageFails(env, "click"),
          calls |-> <<"waitFor", "visible.count", "click">>]
  ELSE IF PageFails(env, "count")
    THEN [done |-> FALSE, calls |-> <<"waitFor", "visible.count", "count">>]
  ELSE IF env.present
    THEN [done |-> ~PageFails(env, "dispatchEvent"),
          calls |-> <<"waitFor", "visible.count", "count", "dispatchEvent">>]
  ELSE [done |-> FALSE, calls |-> <<"waitFor", "visible.count", "count">>]

\* Mutant: no return after the deterministic click, the resolver is asked
\* as well.
handleClickAlwaysAsks(ctx, env, params) ==
  IF params.kind = "undefined" THEN TypeErr(<<>>, <<>>)
  ELSE LET det == IF Truthy(params.fallback_selector)
                    THEN ClickDeterministic(ctx, env, params)
                    ELSE [done |-> FALSE, calls |-> <<>>]
       IN  SemanticTier(env, params.semantic_locator, det.calls,
                        "click failed: neither Playwright nor AI available")

handleClick(ctx, env, params) ==
  IF params.kind = "undefined" THEN TypeErr(<<>>, <<>>)
  ELSE LET det == IF Truthy(params.fallback_selector)
                    THEN ClickDeterministic(ctx, env, params)
                    ELSE [done |-> FALSE, calls |-> <<>>]
       IN  IF det.done THEN Ret("undefined", det.calls, <<>>)
           ELSE SemanticTier(env, params.semantic_locator, det.calls,
                             "click failed: neither Playwright nor AI available")

InputDeterministic(ctx, env, params) ==
  IF ~ctx.hasPage THEN [done |-> FALSE, calls |-> <<>>]
  ELSE IF ~env.present \/ PageFails(env, "waitFor")
    THEN [done |-> FALSE, calls |-> <<"waitFor">>]
  ELSE IF env.visible /\ ~PageFails(env, "isVisible")
    THEN [done |-> ~PageFails(env, "fill"),
          calls |-> <<"waitFor", "isVisible", "fill">>]
  ELSE [done |-> ~PageFails(env, "evaluate"),
        calls |-> <<"waitFor", "isVisible", "evaluate">>]

handleInput(ctx, env, params) ==
  IF params.kind = "undefined" THEN TypeErr(<<>>, <<>>)
  ELSE LET det == IF Truthy(params.fallback_selector)
                    THEN InputDeterministic(ctx, env, params)
                    ELSE [done |-> FALSE, calls |-> <<>>]
       IN  IF det.done THEN Ret("undefined", det.calls, <<>>)
           ELSE SemanticTier(env, params.semantic_locator, det.calls,
                             "input failed: neither Playwright nor AI available")

(***************************************************************************)
(* Assertion texts.  TLC cannot index into a string, so each assertion     *)
(* text the model uses is given with its tokens: a quote character (' or   *)
(* ") or a run of characters holding no quote.  A text not listed holds no *)
(* quote.                                                                  *)
(***************************************************************************)
SQ == "'"
DQ == "\""

\* The Chinese (curly) double quotation marks, U+201C and U+201D, that the
\* comment of extractKeywordsFromAssertion names.
LDQ == "U+201C"
RDQ == "U+201D"

Tokens(text) ==
  CASE text = "page shows \"Welcome\"" -> <<"page shows ", DQ, "Welcome", DQ>>
    [] text = "title is 'Home' or 'Start'" ->
         <<"title is ", SQ, "Home", SQ, " or ", SQ, "Start", SQ>>
    [] text = "shows '' and \"Welcome" -> <<"shows ", SQ, SQ, " and ", DQ, "Welcome">>
    [] text = "page shows U+201CWelcomeU+201D" ->
         <<"page shows ", LDQ, "Welcome", RDQ>>
    [] text = "user is logged in" -> <<"user is logged in">>
    [] OTHER -> <<text>>

\* Index of the first occurrence of quote q in toks at or after from; 0 if none.
RECURSIVE IndexFrom(_, _, _)
IndexFrom(toks, q, from) ==
  IF from > Len(toks) THEN 0
  ELSE IF toks[from] = q THEN from
  ELSE IndexFrom(toks, q, from + 1)

\* The matches of /q(.*?)q/g from position from on: the non-empty captures.
RECURSIVE QuotedFrom(_, _, _)
QuotedFrom(toks, q, from) ==
  LET open == IndexFrom(toks, q, from)
      close == IF open = 0 THEN 0 ELSE IndexFrom(toks, q, open + 1)
  IN  IF open = 0 \/ close = 0 THEN {}
      ELSE (IF close > open + 1 THEN {SubSeq(toks, open + 1, close - 1)} ELSE {})
           \cup QuotedFrom(toks, q, close + 1)

\* The keywords are a set: [...new Set(keywords)].
extractKeywordsFromAssertion(assertion) ==
  LET toks == IF IsString(assertion) THEN Tokens(assertion.s) ELSE <<assertion.t>>
  IN  QuotedFrom(toks, SQ, 1) \cup QuotedFrom(toks, DQ, 1)

\* Mutant: every falsy answer of the resolver fails the assertion.
AssertionFailsIfFalsy(answer) == answer \in {"false", "falsy"}

\* if (result === false) throw new Error(...)
AssertionFails(answer) == answer = "false"

handleVerify(ctx, env, params) ==
  IF params.kind = "undefined" THEN TypeErr(<<>>, <<>>)
  ELSE
    LET keywords == extractKeywordsFromAssertion(params.assertion)
        pageContent == env.markup
        pageText == IF PageFails(env, "innerText") THEN pageContent ELSE env.text
        found == \E kw \in keywords : kw \in pageText \/ kw \in pageContent
        pre == IF keywords # {} THEN <<"content", "innerText">> ELSE <<>>
    IN  IF keywords # {} /\ ~ctx.hasPage THEN TypeErr(<<>>, <<>>)
        ELSE IF keywords # {} /\ PageFails(env, "content")
          THEN Thr("content failed", <<"content">>, <<>>)
        ELSE IF keywords # {} /\ found THEN Ret("true", pre, <<>>)
        ELSE IF env.ai = "throw" THEN Thr("ai error", pre \o <<"ai">>, <<>>)
        ELSE IF AssertionFails(env.ai)
          THEN Thr("assertion failed", pre \o <<"ai">>, <<>>)
        ELSE Ret(env.ai, pre \o <<"ai">>, <<>>)

Min(a, b) == IF a < b THEN a ELSE b

\* timeout || dflt, for a params.timeout that is a number or missing.
TimeoutOr(timeout, dflt) == IF Truthy(timeout) THEN timeout.n ELSE dflt

\* Mutant: the selector's timeout is thrown on.
DegradedWaitRethrows(env, t) == Thr("waitFor timeout", <<"waitFor">>, <<t>>)

\* catch (error) { await page.waitForLoadState('domcontentloaded')
\*                    .catch(() => {}); await page.waitForTimeout(500) }
DegradedWait(env, t) ==
  IF PageFails(env, "waitForTimeout")
    THEN Thr("waitForTimeout failed",
             <<"waitFor", "waitForLoadState", "waitForTimeout">>, <<t, 500>>)
    ELSE Ret("undefined",
             <<"waitFor", "waitForLoadState", "waitForTimeout">>, <<t, 500>>)

\* Mutant: the selector wait takes the instruction's timeout as it is.
SelectorTimeoutUncapped(timeout) == TimeoutOr(timeout, 5000)

\* timeout: Math.min(timeout || 5000, 3000)
SelectorTimeout(timeout) == Min(TimeoutOr(timeout, 5000), 3000)

\* Mutant: the condition 'networkidle' is looked at before the selector.
handleWaitConditionFirst(ctx, env, params) ==
  IF params.kind = "undefined" THEN TypeErr(<<>>, <<>>)
  ELSE IF params.condition = Str("networkidle") THEN
    IF ~ctx.hasPage THEN TypeErr(<<>>, <<>>)
    ELSE IF PageFails(env, "waitForLoadState")
      THEN Thr("waitForLoadState failed", <<"waitForLoadState">>, <<>>)
    ELSE Ret("undefined", <<"waitForLoadState">>, <<>>)
  ELSE IF Truthy(params.selector) THEN
    LET t == SelectorTimeout(params.timeout)
    IN  IF ~ctx.hasPage THEN TypeErr(<<>>, <<>>)
        ELSE IF env.visible /\ ~PageFails(env, "waitFor")
          THEN Ret("undefined", <<"waitFor">>, <<t>>)
        ELSE DegradedWait(env, t)
  ELSE IF Truthy(params.condition) THEN
    LET t == TimeoutOr(params.timeout, 3000)
    IN  IF ~ctx.hasPage THEN TypeErr(<<>>, <<>>)
        ELSE IF PageFails(env, "waitForTimeout")
          THEN Thr("waitForTimeout failed",
                   <<"waitForLoadState", "waitForTimeout">>, <<t>>)
        ELSE Ret("undefined", <<"waitForLoadState", "waitForTimeout">>, <<t>>)
  ELSE IF Truthy(params.timeout) THEN
    IF ~ctx.hasPage THEN TypeErr(<<>>, <<>>)
    ELSE IF PageFails(env, "waitForTimeout")
      THEN Thr("waitForTimeout failed", <<"waitForTimeout">>, <<params.timeout.n>>)
    ELSE Ret("undefined", <<"waitForTimeout">>, <<params.timeout.n>>)
  ELSE Ret("undefined", <<>>, <<>>)

handleWait(ctx, env, params) ==
  IF params.kind = "undefined" THEN TypeErr(<<>>, <<>>)
  ELSE IF Truthy(params.selector) THEN
    LET t == SelectorTimeout(params.timeout)
    IN  IF ~ctx.hasPage THEN TypeErr(<<>>, <<>>)
        ELSE IF env.visible /\ ~PageFails(env, "waitFor")
          THEN Ret("undefined", <<"waitFor">>, <<t>>)
        ELSE DegradedWait(env, t)
  ELSE IF params.condition = Str("networkidle") THEN
    IF ~ctx.hasPage THEN TypeErr(<<>>, <<>>)
    ELSE IF PageFails(env, "waitForLoadState")
      THEN Thr("waitForLoadState failed", <<"waitForLoadState">>, <<>>)
    ELSE Ret("undefined", <<"waitForLoadState">>, <<>>)
  ELSE IF Truthy(params.condition) THEN
    LET t == TimeoutOr(params.timeout, 3000)
    IN  IF ~ctx.hasPage THEN TypeErr(<<>>, <<>>)
        ELSE IF PageFails(env, "waitForTimeout")
          THEN Thr("waitForTimeout failed",
                   <<"waitForLoadState", "waitForTimeout">>, <<t>>)
        ELSE Ret("undefined", <<"waitForLoadState", "waitForTimeout">>, <<t>>)
  ELSE IF Truthy(params.timeout) THEN
    IF ~ctx.hasPage THEN TypeErr(<<>>, <<>>)
    ELSE IF PageFails(env, "waitForTimeout")
      THEN Thr("waitForTimeout failed", <<"waitForTimeout">>, <<params.timeout.n>>)
    ELSE Ret("undefined", <<"waitForTimeout">>, <<params.timeout.n>>)
  ELSE Ret("undefined", <<>>, <<>>)

\* selectOption and hover are Playwright actions on the located element:
\* they wait for it to be visible and throw when it never is.
handleSelect(ctx, env, params) ==
  IF params.kind = "undefined" THEN TypeErr(<<>>, <<>>)
  ELSE LET tried == Truthy(params.fallback_selector) /\ ctx.hasPage
           calls == IF tried THEN <<"selectOption">> ELSE <<>>
       IN  IF tried /\ env.visible /\ ~PageFails(env, "selectOption")
             THEN Ret("undefined", calls, <<>>)
           ELSE SemanticTier(env, params.semantic_locator, calls,
                             "select failed: neither Playwright nor AI available")

handleHover(ctx, env, params) ==
  IF params.kind = "undefined" THEN TypeErr(<<>>, <<>>)
  ELSE LET tried == Truthy(params.fallback_selector) /\ ctx.hasPage
           calls == IF tried THEN <<"hover">> ELSE <<>>
       IN  IF tried /\ env.visible /\ ~PageFails(env, "hover")
             THEN Ret("undefined", calls, <<>>)
           ELSE SemanticTier(env, params.semantic_locator, calls,
                             "hover failed: neither Playwright nor AI available")

handlePress(ctx, env, params) ==
  IF params.kind = "undefined" \/ ~ctx.hasPage THEN TypeErr(<<>>, <<>>)
  ELSE IF PageFails(env, "press") THEN Thr("press failed", <<"press">>, <<>>)
  ELSE Ret("undefined", <<"press">>, <<>>)

\* Mutant: no try/catch around the resolver call.
handleScrollNoFallback(ctx, env, params) ==
  IF params.kind = "undefined" THEN TypeErr(<<>>, <<>>)
  ELSE IF Truthy(params.semantic_locator)
    THEN IF env.ai = "throw" THEN Thr("ai error", <<"ai">>, <<>>)
         ELSE Ret("undefined", <<"ai">>, <<>>)
  ELSE IF ~ctx.hasPage THEN TypeErr(<<>>, <<>>)
  ELSE IF PageFails(env, "evaluate") THEN Thr("evaluate failed", <<"evaluate">>, <<>>)
  ELSE Ret("undefined", <<"evaluate">>, <<>>)

handleScroll(ctx, env, params) ==
  IF params.kind = "undefined" THEN TypeErr(<<>>, <<>>)
  ELSE LET viaAi == Truthy(params.semantic_locator)
           calls == IF viaAi THEN <<"ai">> ELSE <<>>
       IN  IF viaAi /\ env.ai # "throw" THEN Ret("undefined", calls, <<>>)
           ELSE IF ~ctx.hasPage THEN TypeErr(calls, <<>>)
           ELSE IF PageFails(env, "evaluate")
             THEN Thr("evaluate failed", calls \o <<"evaluate">>, <<>>)
           ELSE Ret("undefined", calls \o <<"evaluate">>, <<>>)

(***************************************************************************)
(* api/adapter.js: executeInstruction.                                     *)
(*                                                                         *)
(* The result holds the fields of the returned object (success, result,    *)
(* error; elapsed is wall-clock time and left out) and what was observed   *)
(* of the call: raised (it threw instead of returning), handler (the       *)
(* handler dispatched to, "none" if none), calls and ms.                   *)
(***************************************************************************)
Dispatch(action, ctx, env, params) ==
  CASE action = Str("navigate") -> handleNavigate(ctx, env, params)
    [] action = Str("click") -> handleClick(ctx, env, params)
    [] action = Str("input") -> handleInput(ctx, env, params)
    [] action = Str("verify") -> handleVerify(ctx, env, params)
    [] action = Str("wait") -> handleWait(ctx, env, params)
    [] action = Str("select") -> handleSelect(ctx, env, params)
    [] action = Str("hover") -> handleHover(ctx, env, params)
    [] action = Str("press") -> handlePress(ctx, env, params)
    [] action = Str("scroll") -> handleScroll(ctx, env, params)
    [] OTHER -> Thr("unsupported action type", <<>>, <<>>)

HandlerOf(action) ==
  IF IsString(action) /\ action.s \in SupportedSet THEN action.s ELSE "none"

\* try { ... } catch (error) { return { success: false, error } }
\* Mutant: no try/catch around the dispatch.
CatchNothing(out, handler) ==
  [raised |-> out.thrown, success |-> ~out.thrown,
   result |-> IF out.thrown THEN "" ELSE out.ret,
   error |-> "", handler |-> handler, calls |-> out.calls, ms |-> out.ms]

Catch(out, handler) ==
  [raised |-> FALSE, success |-> ~out.thrown,
   result |-> IF out.thrown THEN "" ELSE out.ret,
   error |-> IF out.thrown THEN out.msg ELSE "",
   handler |-> handler, calls |-> out.calls, ms |-> out.ms]

\* Mutant: only a navigate is skipped.
SkipsOnlyNavigate(instruction) ==
  instruction.preNavigated /\ instruction.action_type = Str("navigate")

\* if (instruction._preNavigated) return { success: true, ... }
SkipsDispatch(instruction) == instruction.preNavigated

executeInstruction(instruction, ctx, env) ==
  IF SkipsDispatch(instruction)
    THEN [raised |-> FALSE, success |-> TRUE, result |-> "pre-navigated",
          error |-> "", handler |-> "none", calls |-> <<>>, ms |-> <<>>]
    ELSE Catch(Dispatch(instruction.action_type, ctx, env, instruction.params),
               HandlerOf(instruction.action_type))

(***************************************************************************)
(* api/adapter.js: executeInstructionStream, one loop iteration at a time. *)
(*                                                                         *)
(* A stream state st holds the options (stopOnError, stepDelay), the loop   *)
(* position i (the next of the instructions, 1-based), the                 *)
(* locals results, successCount and failCount, whether the loop has been   *)
(* left (done), and what was observed: log has one entry per call of       *)
(* executeInstruction, sleeps counts the step delays slept.                *)
(***************************************************************************)
StreamStart(instructions, stopOnError, stepDelay) ==
  [stopOnError |-> stopOnError, stepDelay |-> stepDelay, i |-> 1, results |-> <<>>,
   successCount |-> 0, failCount |-> 0, done |-> Len(instructions) = 0,
   raised |-> FALSE, log |-> <<>>, sleeps |-> 0]

\* Mutant: the loop never breaks.
BreaksNever(stopOnError, result) == FALSE

\* Mutant: the loop breaks on every failure, whatever stopOnError says.
BreaksOnAnyFailure(stopOnError, result) == ~result.success

\* Mutant: the loop breaks after any result when stopOnError is set.
BreaksOnAnyResult(stopOnError, result) == stopOnError

\* if (!result.success && stopOnError) break
Breaks(stopOnError, result) == ~result.success /\ stopOnError

CountPageCalls(calls) == Cardinality({k \in 1..Len(calls) : calls[k] # "ai"})
CountAiCalls(calls) == Cardinality({k \in 1..Len(calls) : calls[k] = "ai"})

\* Mutant: results.unshift instead of results.push.
UnshiftResult(results, entry) == <<entry>> \o results

\* results.push({ step_id, description, ...result })
PushResult(results, entry) == Append(results, entry)

\* Mutant: the delay is slept only after a successful step.
SleepsAfterSuccess(stepDelay, result, broke) ==
  result.success /\ stepDelay > 0

\* if (stepDelay > 0) await new Promise(resolve => setTimeout(resolve,
\* stepDelay)), reached unless the loop has been left by break.
SleepsAfter(stepDelay, result, broke) == ~broke /\ stepDelay > 0

\* What the loop body does with the result of executeInstruction.
StepOutcome(instructions, st, result, seen, broke) ==
  IF result.raised
    THEN [st EXCEPT !.raised = TRUE, !.done = TRUE, !.log = Append(@, seen)]
    ELSE [st EXCEPT
            !.results = PushResult(@, [step_id |-> instructions[st.i].step_id,
                                       description |-> instructions[st.i].description,
                                       success |-> result.success,
                                       result |-> result.result,
                                       error |-> result.error]),
            !.successCount = IF result.success THEN @ + 1 ELSE @,
            !.failCount = IF result.success THEN @ ELSE @ + 1,
            !.log = Append(@, seen),
            !.sleeps = IF SleepsAfter(st.stepDelay, result, broke) THEN @ + 1 ELSE @,
            !.i = @ + 1,
            !.done = broke \/ st.i = Len(instructions)]

\* What is observed of one call of executeInstruction.
Seen(index, result) ==
  [index |-> index, handler |-> result.handler,
   page |-> CountPageCalls(result.calls), ai |-> CountAiCalls(result.calls),
   success |-> result.success, error |-> result.error]

StepWith(instructions, st, result) ==
  StepOutcome(instructions, st, result, Seen(st.i, result),
              Breaks(st.stopOnError, result))

StreamStep(instructions, st, ctx, env) ==
  StepWith(instructions, st, executeInstruction(instructions[st.i], ctx, env))

\* Mutant: total counts the executed steps, not the input list.
SummaryOfExecuted(instructions, st) ==
  [total |-> Len(st.results), success |-> st.successCount,
   fail |-> st.failCount,
   allPassed |-> st.failCount = 0 /\ st.successCount = Len(st.results)]

SummaryOf(instructions, st) ==
  [total |-> Len(instructions), success |-> st.successCount,
   fail |-> st.failCount,
   allPassed |-> st.failCount = 0 /\ st.successCount = Len(instructions)]

(***************************************************************************)
(* api/llm-client.js: parseIntent.  The planner's response is a transport  *)
(* or parse failure ("error"), JSON that is no array ("object") or an      *)
(* array of instructions ("array").                                        *)
(***************************************************************************)
PlanError == [kind |-> "error", list |-> <<>>]
PlanObject == [kind |-> "object", list |-> <<>>]
PlanArray(list) == [kind |-> "array", list |-> list]

parseIntent(response) ==
  IF response.kind = "error"
    THEN [thrown |-> TRUE, instructions |-> <<>>]
  ELSE IF ~validateInstructionStream(response.kind = "array", response.list).valid
    THEN [thrown |-> TRUE, instructions |-> <<>>]
  ELSE [thrown |-> FALSE, instructions |-> response.list]

(***************************************************************************)
(* api/workflow.js: prompts, cache paths and the cache files.              *)
(*                                                                         *)
(* A prompt is its sequence of tokens: a URL-looking substring (one match  *)
(* of /https?:\/\/[^\s),]+/) or the text between two of them.              *)
(***************************************************************************)
Text(x) == [kind |-> "text", s |-> x]
Url(x) == [kind |-> "url", s |-> x]

PromptUrl == <<Text("open "), Url("https://a.test"), Text(" and click login")>>
PromptPlain == <<Text("click the login button")>>
PromptTwin == <<Text("log in on the start page")>>
Prompts == {PromptUrl, PromptPlain, PromptTwin}

\* The first 12 hex digits of the MD5 digest: 48 bits, so two prompts can
\* share a cache path, as PromptUrl and PromptTwin do here.
getCachePath(prompt) ==
  CASE prompt = PromptUrl -> "instructions_0a1b2c3d4e5f.json"
    [] prompt = PromptTwin -> "instructions_0a1b2c3d4e5f.json"
    [] OTHER -> "instructions_a9b8c7d6e5f4.json"

CachePaths == {getCachePath(p) : p \in Prompts}

RECURSIVE FirstUrl(_)
FirstUrl(tokens) ==
  IF tokens = <<>> THEN Null
  ELSE IF Head(tokens).kind = "url" THEN Str(Head(tokens).s)
  ELSE FirstUrl(Tail(tokens))

extractUrlFromPrompt(prompt) == FirstUrl(prompt)

(***************************************************************************)
(* JSON.stringify and JSON.parse of an instruction list.  The text of an   *)
(* object is its set of properties <<scope, name, value>>; a property      *)
(* whose value is undefined is not written, and one that is absent reads   *)
(* back as undefined.                                                      *)
(***************************************************************************)
TopFields == {"step_id", "action_type", "description"}
ParamFields ==
  {"url", "semantic_locator", "fallback_selector", "value", "assertion",
   "timeout", "selector", "condition", "key", "direction"}

\* Mutant: the _preNavigated property is left out of the text.
StringifyInstructionUnmarked(x) ==
  {<<"", f, x[f]>> : f \in {g \in TopFields : x[g] # Undef}}
  \cup (IF x.params.kind = "undefined" THEN {}
        ELSE {<<"", "params", [t |-> x.params.kind, s |-> "", n |-> 0]>>})
  \cup (IF x.params.kind # "object" THEN {}
        ELSE {<<"params", f, x.params[f]>> :
                f \in {g \in ParamFields : x.params[g] # Undef}})

StringifyInstruction(x) ==
  {<<"", f, x[f]>> : f \in {g \in TopFields : x[g] # Undef}}
  \cup (IF x.params.kind = "undefined" THEN {}
        ELSE {<<"", "params", [t |-> x.params.kind, s |-> "", n |-> 0]>>})
  \cup (IF x.params.kind # "object" THEN {}
        ELSE {<<"params", f, x.params[f]>> :
                f \in {g \in ParamFields : x.params[g] # Undef}})
  \cup (IF x.preNavigated THEN {<<"", "_preNavigated", True>>} ELSE {})

Property(text, scope, name) ==
  IF \E pr \in text : pr[1] = scope /\ pr[2] = name
    THEN (CHOOSE pr \in text : pr[1] = scope /\ pr[2] = name)[3]
    ELSE Undef

ParseInstruction(text) ==
  [step_id |-> Property(text, "", "step_id"),
   action_type |-> Property(text, "", "action_type"),
   description |-> Property(text, "", "description"),
   params |-> [f \in ParamFields \cup {"kind"} |->
                 IF f = "kind" THEN Property(text, "", "params").t
                 ELSE Property(text, "params", f)],
   preNavigated |-> Truthy(Property(text, "", "_preNavigated"))]

JSONstringify(instructions) ==
  [k \in 1..Len(instructions) |-> StringifyInstruction(instructions[k])]

JSONparse(text) == [k \in 1..Len(text) |-> ParseInstruction(text[k])]

NoFile == [exists |-> FALSE, text |-> <<>>]
File(text) == [exists |-> TRUE, text |-> text]

(***************************************************************************)
(* The instructions, lists and answers the model draws its inputs from.    *)
(***************************************************************************)
NavA ==
  Instr(Num(1), Str("navigate"), [NoParams EXCEPT !.url = Str("https://a.test")],
        Str("open the start page"))
ClickLogin ==
  Instr(Num(2), Str("click"),
        [NoParams EXCEPT !.semantic_locator = Str("login button"),
                         !.fallback_selector = Str("#login")],
        Str("click the login button"))
ClickFixed ==
  Instr(Num(2), Str("click"),
        [NoParams EXCEPT !.semantic_locator = Str("login button"),
                         !.fallback_selector = Str("button.el-button")],
        Str("click the login button"))
PressEnter ==
  Instr(Num(3), Str("press"), [NoParams EXCEPT !.key = Str("Enter")],
        Str("press Enter"))
Drag == Instr(Num(4), Str("drag"), NoParams, Str("drag the slider"))
ScrollBar ==
  Instr(Num(6), Str("scroll"),
        [NoParams EXCEPT !.direction = Str("down"),
                         !.semantic_locator = Str("side bar")],
        Str("scroll the side bar"))
NavNoUrl == Instr(Num(1), Str("navigate"), NoParams, Str("open the start page"))

Marked(instruction) == [instruction EXCEPT !.preNavigated = TRUE]

\* What the planner may answer: valid plans, invalid ones and failures.
PlannerResponses ==
  {PlanError, PlanObject, PlanArray(<<>>), PlanArray(<<NavA>>),
   PlanArray(<<NavA, ClickLogin>>), PlanArray(<<ClickLogin, PressEnter>>),
   PlanArray(<<NavA, Drag>>), PlanArray(<<ScrollBar>>)}

\* What a manual edit of a cache file may leave in it.
EditedLists == {<<NavA, ClickFixed>>, <<NavNoUrl, ClickLogin>>, <<Drag>>, <<>>}

Keywords == {<<"Welcome">>, <<"Home">>}

ElementActions == {"click", "input", "wait", "select", "hover"}
ResolverActions == {"click", "input", "verify", "select", "hover", "scroll"}

PageCallsOf(handler) ==
  CASE handler = "navigate" -> {"goto"}
    [] handler = "click" -> {"visible.count", "count", "click", "dispatchEvent"}
    [] handler = "input" -> {"waitFor", "isVisible", "fill", "evaluate"}
    [] handler = "verify" -> {"content", "innerText"}
    [] handler = "wait" -> {"waitFor", "waitForLoadState", "waitForTimeout"}
    [] handler = "select" -> {"selectOption"}
    [] handler = "hover" -> {"hover"}
    [] handler = "press" -> {"press"}
    [] handler = "scroll" -> {"evaluate"}
    [] OTHER -> {}

\* The answers of the page and of the resolver that one execution of the
\* instruction can depend on; what its handler never reads is held fixed.
EnvsFor(instruction) ==
  LET h == HandlerOf(instruction.action_type)
      elements == IF h \in ElementActions
                    THEN {<<TRUE, TRUE>>, <<TRUE, FALSE>>, <<FALSE, FALSE>>}
                    ELSE {<<FALSE, FALSE>>}
      answers == IF h = "verify" THEN {"ok", "throw", "false", "falsy"}
                 ELSE IF h \in ResolverActions THEN {"ok", "throw"}
                 ELSE {"ok"}
      words == IF h = "verify" THEN SUBSET Keywords ELSE {{}}
  IN  {[present |-> el[1], visible |-> el[2], fail |-> f, ai |-> a,
        text |-> t, markup |-> m] :
         el \in elements, f \in {"none"} \cup PageCallsOf(h), a \in answers,
         t \in words, m \in words}

(***************************************************************************)
(* State.                                                                  *)
(*   run      the runWorkflow / executeInstructionStream call in progress  *)
(*            or last finished                                             *)
(*   cache    the files of the .cache directory, by path                   *)
(*   started  the number of runWorkflow calls made so far                  *)
(*   edits    the number of manual edits of cache files so far             *)
(*   orphans  the navigations still in flight whose runWorkflow call has   *)
(*            already thrown                                               *)
(*   planned  the prompts a caching run has planned and stored a plan for  *)
(*   exec     a single executeInstruction call: its arguments and result   *)
(*   val      a single validateInstruction or validateInstructionStream    *)
(*            call: its argument and result                                *)
(*   inflight the calls of executeInstruction made by the loop of          *)
(*            executeInstructionStream: the index of the next call and the *)
(*            indexes of the calls whose promise has not settled           *)
(*   writers  two runWorkflow calls for one prompt made by two test        *)
(*            workers at the same time: the position of each and the list  *)
(*            it holds                                                     *)
(***************************************************************************)
VARIABLES run, cache, started, edits, orphans, planned, exec, val, inflight,
          writers

vars == <<run, cache, started, edits, orphans, planned, exec, val, inflight, writers>>

MaxRuns == 2
MaxEdits == 1
MaxLen == 3

NoResult ==
  [raised |-> FALSE, success |-> FALSE, result |-> "", error |-> "",
   handler |-> "none", calls |-> <<>>, ms |-> <<>>]

NoEnv ==
  [present |-> FALSE, visible |-> FALSE, fail |-> "none", ai |-> "ok",
   text |-> {}, markup |-> {}]

IdleExec ==
  [pc |-> "idle", instruction |-> NavA, hasPage |-> TRUE, env |-> NoEnv,
   result |-> NoResult]

NoWriters ==
  [prompt |-> PromptPlain,
   of |-> [w \in 1..2 |-> [pc |-> "idle", hasPage |-> TRUE, instructions |-> <<>>]]]

NoCalls == [next |-> 1, pending |-> {}]

IdleVal ==
  [pc |-> "idle", instruction |-> NavA, isArray |-> TRUE, list |-> <<>>,
   result |-> [valid |-> FALSE, errors |-> <<>>],
   stream |-> [valid |-> FALSE, errors |-> <<>>]]

\* pc: "idle", "hitNav" (the pre-navigation of a cache hit is awaited),
\* "plan" (parseIntent alone is awaited), "fork" (parseIntent and the
\* pre-navigation are awaited together), "stream" (executeInstructionStream
\* is running), "returned", "threw".
IdleRun ==
  [pc |-> "idle", prompt |-> PromptPlain, useCache |-> TRUE, hasPage |-> TRUE,
   instructions |-> <<>>, plan |-> "none", nav |-> "none",
   st |-> StreamStart(<<>>, TRUE, 0),
   summary |-> [total |-> 0, success |-> 0, fail |-> 0, allPassed |-> FALSE],
   viaWorkflow |-> FALSE, hit |-> FALSE,
   priorPlanned |-> FALSE, planCalls |-> 0, gotos |-> <<>>]

Settled == run.pc \in {"idle", "returned", "threw"}

FirstIsNavigate(instructions) ==
  Len(instructions) > 0 /\ instructions[1].action_type = Str("navigate")

\* instructions[0].params?.url
FirstUrlOf(instructions) ==
  IF instructions[1].params.kind = "undefined" THEN Undef
  ELSE instructions[1].params.url

\* Mutant: the instruction is left unmarked.
MarkNone(instructions) == instructions

\* instructions[0]._preNavigated = true
MarkFirst(instructions) == [instructions EXCEPT ![1] = Marked(@)]

\* Mutant: the cache is never read.
CacheHitIgnored(useCache, files, path) == FALSE

\* useCache && existsSync(cachePath)
CacheHit(useCache, files, path) == useCache /\ files[path].exists

\* A page.goto observed in a run: by runWorkflow itself (index 0) or by the
\* navigate handler for the instruction at index.
Goto(index, url, ok) == [index |-> index, url |-> url, ok |-> ok]

(***************************************************************************)
(* runWorkflow, from the call to its first await.                          *)
(***************************************************************************)
StartWorkflow(prompt, useCache, stopOnError, hasPage) ==
  LET path == getCachePath(prompt)
      fresh == [IdleRun EXCEPT !.prompt = prompt, !.useCache = useCache,
                               !.hasPage = hasPage, !.viaWorkflow = TRUE,
                               !.st = StreamStart(<<>>, stopOnError, 0),
                               !.hit = useCache /\ cache[path].exists,
                               !.priorPlanned = prompt \in planned]
  IN  /\ Settled
      /\ started < MaxRuns
      /\ started' = started + 1
      /\ IF CacheHit(useCache, cache, path)
           THEN LET instructions == JSONparse(cache[path].text)
                IN  IF FirstIsNavigate(instructions) /\ hasPage
                         /\ Truthy(FirstUrlOf(instructions))
                      THEN run' = [fresh EXCEPT !.pc = "hitNav",
                                                !.instructions = instructions]
                      ELSE run' = [fresh EXCEPT
                                     !.pc = "stream",
                                     !.instructions = instructions,
                                     !.st = StreamStart(instructions, stopOnError, 0)]
           ELSE IF extractUrlFromPrompt(prompt) # Null /\ hasPage
                  THEN run' = [fresh EXCEPT !.pc = "fork", !.plan = "pending",
                                            !.nav = "pending"]
                  ELSE run' = [fresh EXCEPT !.pc = "plan", !.plan = "pending"]
      /\ UNCHANGED <<cache, edits, orphans, planned, exec, val, inflight, writers>>

\* The awaited page.goto of a cache hit: it resolves, or it throws and
\* runWorkflow re-throws.
HitNavigate ==
  /\ run.pc = "hitNav"
  /\ \E ok \in BOOLEAN :
       LET url == FirstUrlOf(run.instructions)
           went == [run EXCEPT !.gotos = Append(@, Goto(0, url, ok))]
       IN  IF ok
             THEN LET instructions == MarkFirst(run.instructions)
                  IN  run' = [went EXCEPT
                                !.pc = "stream", !.instructions = instructions,
                                !.st = StreamStart(instructions, run.st.stopOnError,
                                                   run.st.stepDelay)]
             ELSE run' = [went EXCEPT !.pc = "threw"]
  /\ UNCHANGED <<cache, started, edits, orphans, planned, exec, val, inflight, writers>>

\* What follows the awaited planning on a cache miss, up to the call of
\* executeInstructionStream: the first navigate is marked when the
\* pre-navigation was started, and the list is written to the cache file.
MarkAfterFork(instructions) ==
  IF FirstIsNavigate(instructions) THEN MarkFirst(instructions) ELSE instructions

\* Mutant: the plan is not written.
WriteCacheNowhere(files, path, instructions) == files

\* writeFileSync(cachePath, JSON.stringify(instructions, null, 2))
WriteCache(files, path, instructions) ==
  [files EXCEPT ![path] = File(JSONstringify(instructions))]

PlanningDone(r, planned_list, forked) ==
  LET instructions == IF forked THEN MarkAfterFork(planned_list) ELSE planned_list
      path == getCachePath(r.prompt)
  IN  /\ run' = [r EXCEPT !.pc = "stream", !.plan = "ok",
                          !.instructions = instructions,
                          !.st = StreamStart(instructions, r.st.stopOnError,
                                             r.st.stepDelay)]
      /\ cache' = IF r.useCache THEN WriteCache(cache, path, instructions) ELSE cache
      /\ planned' = IF r.useCache THEN planned \cup {r.prompt} ELSE planned

\* Mutant: a failed planning is tried again instead of being re-thrown.
PlanningRetried(r) == [r EXCEPT !.pc = "plan", !.plan = "failed"]

\* catch (error) { ...; throw error } around a rejected parseIntent.
PlanningFailed(r) == [r EXCEPT !.pc = "threw", !.plan = "failed"]

\* instructions = await parseIntent(prompt), no URL in the prompt (or no page).
PlanAlone ==
  /\ run.pc = "plan"
  /\ \E response \in PlannerResponses :
       LET out == parseIntent(response)
           called == [run EXCEPT !.planCalls = @ + 1]
       IN  IF out.thrown
             THEN /\ run' = PlanningFailed(called)
                  /\ UNCHANGED <<cache, planned>>
             ELSE PlanningDone(called, out.instructions, FALSE)
  /\ UNCHANGED <<started, edits, orphans, exec, val, inflight, writers>>

\* Mutant: the planned list is used as soon as the planning has settled.
JoinedOnPlan(plan, nav) == plan = "ok"

\* await Promise.all([...]) resumes when both promises are fulfilled.
Joined(plan, nav) == plan = "ok" /\ nav # "pending"

\* Mutant: no .catch on the navigation, a failed page.goto rejects.
NavFulfilsIfOk(ok) == ok

\* page.goto(url, ...).catch(() => {}) is fulfilled whether or not the
\* navigation succeeded.
NavFulfils(ok) == TRUE

\* Promise.all([parseIntent(prompt), page.goto(url).catch(() => {})]): the
\* planning settles.  When it rejects, Promise.all rejects at once and
\* runWorkflow throws, whether or not the navigation has settled.
ForkPlan ==
  /\ run.pc = "fork" /\ run.plan = "pending"
  /\ \E response \in PlannerResponses :
       LET out == parseIntent(response)
           called == [run EXCEPT !.planCalls = @ + 1]
       IN  IF out.thrown
             THEN /\ run' = PlanningFailed(called)
                  /\ orphans' = IF run.nav = "pending" THEN orphans + 1 ELSE orphans
                  /\ UNCHANGED <<cache, planned>>
           ELSE IF Joined("ok", run.nav)
             THEN /\ PlanningDone(called, out.instructions, TRUE)
                  /\ UNCHANGED orphans
           ELSE /\ run' = [called EXCEPT !.plan = "ok",
                                          !.instructions = out.instructions]
                /\ UNCHANGED <<cache, planned, orphans>>
  /\ UNCHANGED <<started, edits, exec, val, inflight, writers>>

\* The pre-navigation of the fork settles.  A rejected promise would make
\* Promise.all reject and runWorkflow throw.
ForkNav ==
  /\ run.pc = "fork" /\ run.nav = "pending"
  /\ \E ok \in BOOLEAN :
       LET url == extractUrlFromPrompt(run.prompt)
           went == [run EXCEPT !.nav = IF ok THEN "ok" ELSE "failed",
                               !.gotos = Append(@, Goto(0, url, ok))]
       IN  IF ~NavFulfils(ok)
             THEN run' = [went EXCEPT !.pc = "threw"] /\ UNCHANGED <<cache, planned>>
           ELSE IF Joined(run.plan, went.nav)
             THEN PlanningDone(went, run.instructions, TRUE)
           ELSE run' = went /\ UNCHANGED <<cache, planned>>
  /\ UNCHANGED <<started, edits, orphans, exec, val, inflight, writers>>

\* A navigation left in flight by a run that threw settles.
OrphanSettles ==
  /\ orphans > 0
  /\ orphans' = orphans - 1
  /\ UNCHANGED <<run, cache, started, edits, planned, exec, val, inflight, writers>>

(***************************************************************************)
(* executeInstructionStream: one iteration of its loop, and its return.    *)
(***************************************************************************)
\* The run after a loop iteration that left the stream in state next: a
\* navigate handler that reached page.goto is recorded in gotos.
AfterStep(r, next, seen) ==
  [r EXCEPT
     !.st = next,
     !.gotos = IF seen.handler = "navigate" /\ seen.page > 0
                 THEN Append(@, Goto(seen.index, r.instructions[r.st.i].params.url,
                                     seen.success))
                 ELSE @]

LastSeen(st) == st.log[Len(st.log)]

Advance(r, next) == AfterStep(r, next, LastSeen(next))

StreamExec ==
  /\ run.pc = "stream" /\ ~run.st.done
  /\ \E env \in EnvsFor(run.instructions[run.st.i]) :
       run' = Advance(run, StreamStep(run.instructions, run.st,
                                      [hasPage |-> run.hasPage], env))
  /\ UNCHANGED <<cache, started, edits, orphans, planned, exec, val, inflight, writers>>

StreamReturn ==
  /\ run.pc = "stream" /\ run.st.done
  /\ run' = IF run.st.raised
              THEN [run EXCEPT !.pc = "threw"]
              ELSE [run EXCEPT !.pc = "returned", !.summary = SummaryOf(run.instructions, run.st)]
  /\ UNCHANGED <<cache, started, edits, orphans, planned, exec, val, inflight, writers>>

\* A cache file is edited by hand between two runs.
ManualEdit ==
  /\ Settled
  /\ edits < MaxEdits
  /\ \E path \in CachePaths, list \in EditedLists :
       /\ cache[path].exists
       /\ cache' = [cache EXCEPT ![path] = File(JSONstringify(list))]
  /\ edits' = edits + 1
  /\ UNCHANGED <<run, started, orphans, planned, exec, val, inflight, writers>>

Init ==
  /\ run = IdleRun
  /\ cache = [path \in CachePaths |-> NoFile]
  /\ started = 0
  /\ edits = 0
  /\ orphans = 0
  /\ planned = {}
  /\ exec = IdleExec
  /\ val = IdleVal
  /\ inflight = NoCalls
  /\ writers = NoWriters

Next ==
  \/ \E prompt \in Prompts, useCache \in BOOLEAN, stopOnError \in BOOLEAN,
        hasPage \in BOOLEAN :
       StartWorkflow(prompt, useCache, stopOnError, hasPage)
  \/ HitNavigate
  \/ PlanAlone
  \/ ForkPlan
  \/ ForkNav
  \/ OrphanSettles
  \/ StreamExec
  \/ StreamReturn
  \/ ManualEdit

Spec == Init /\ [][Next]_vars

(***************************************************************************)
(* executeInstructionStream called on its own, on every list of at most    *)
(* MaxLen instructions, with every combination of options.                 *)
(***************************************************************************)
StreamInstructions == {NavA, Marked(NavA), ClickLogin, Drag}

ListsUpTo(S, n) == UNION {[1..k -> S] : k \in 0..n}

StepDelays == {0, 500}

InitStream ==
  /\ \E instructions \in ListsUpTo(StreamInstructions, MaxLen),
        stopOnError \in BOOLEAN, stepDelay \in StepDelays, hasPage \in BOOLEAN :
       run = [IdleRun EXCEPT !.pc = "stream", !.instructions = instructions,
                             !.hasPage = hasPage,
                             !.st = StreamStart(instructions, stopOnError, stepDelay)]
  /\ cache = [path \in CachePaths |-> NoFile]
  /\ started = 0
  /\ edits = 0
  /\ orphans = 0
  /\ planned = {}
  /\ exec = IdleExec
  /\ val = IdleVal
  /\ inflight = NoCalls
  /\ writers = NoWriters

NextStream == StreamExec \/ StreamReturn

SpecStream == InitStream /\ [][NextStream]_vars

(***************************************************************************)
(* executeInstructionStream with the call of executeInstruction and the    *)
(* settling of its promise as separate steps: the loop calls               *)
(* executeInstruction for the next instruction, and goes on with the       *)
(* result once the awaited promise has settled.                            *)
(***************************************************************************)
\* Mutant: the call is not awaited, the loop goes on at once.
ResumedAtOnce(pending) == TRUE

\* const result = await executeInstruction(instruction, context): the loop
\* is suspended while the promise is pending.
Resumed(pending) == pending = {}

StreamCall ==
  /\ run.pc = "stream" /\ ~run.st.done
  /\ inflight.next <= Len(run.instructions)
  /\ Resumed(inflight.pending)
  /\ inflight' = [next |-> inflight.next + 1,
                  pending |-> inflight.pending \cup {inflight.next}]
  /\ UNCHANGED <<run, cache, started, edits, orphans, planned, exec, val, writers>>

StreamSettle ==
  /\ run.pc = "stream" /\ ~run.st.done
  /\ run.st.i \in inflight.pending
  /\ \E env \in EnvsFor(run.instructions[run.st.i]) :
       run' = Advance(run, StreamStep(run.instructions, run.st,
                                      [hasPage |-> run.hasPage], env))
  /\ inflight' = [inflight EXCEPT !.pending = @ \ {run.st.i}]
  /\ UNCHANGED <<cache, started, edits, orphans, planned, exec, val, writers>>

NextAwait == StreamCall \/ StreamSettle \/ StreamReturn

SpecAwait == InitStream /\ [][NextAwait]_vars

(***************************************************************************)
(* Two workers call runWorkflow with the same prompt and the default       *)
(* useCache at the same time (fullyParallel, several workers).  Of each    *)
(* call only the steps that read or write the cache file are kept: the     *)
(* existsSync test, and the write that follows a successful planning.      *)
(***************************************************************************)
InitWriters ==
  /\ \E prompt \in Prompts, page \in [1..2 -> BOOLEAN] :
       writers = [prompt |-> prompt,
                  of |-> [w \in 1..2 |-> [pc |-> "called", hasPage |-> page[w],
                                          instructions |-> <<>>]]]
  /\ run = IdleRun
  /\ cache = [path \in CachePaths |-> NoFile]
  /\ started = 0
  /\ edits = 0
  /\ orphans = 0
  /\ planned = {}
  /\ exec = IdleExec
  /\ val = IdleVal
  /\ inflight = NoCalls

\* if (useCache && existsSync(cachePath)) ... else ...
WriterStarts(w) ==
  LET path == getCachePath(writers.prompt)
  IN  /\ writers.of[w].pc = "called"
      /\ writers' =
           IF CacheHit(TRUE, cache, path)
             THEN [writers EXCEPT !.of[w].pc = "hit",
                                  !.of[w].instructions = JSONparse(cache[path].text)]
             ELSE [writers EXCEPT !.of[w].pc = "planning"]
      /\ UNCHANGED <<run, cache, started, edits, orphans, planned, exec, val, inflight>>

\* The planning of a call that missed settles; with a URL in the prompt
\* and a page the first navigate is marked; the list is written.
WriterPlans(w) ==
  LET path == getCachePath(writers.prompt)
      forked == extractUrlFromPrompt(writers.prompt) # Null /\ writers.of[w].hasPage
  IN  /\ writers.of[w].pc = "planning"
      /\ \E response \in PlannerResponses :
           LET out == parseIntent(response)
               instructions == IF forked THEN MarkAfterFork(out.instructions)
                               ELSE out.instructions
           IN  IF out.thrown
                 THEN /\ writers' = [writers EXCEPT !.of[w].pc = "threw"]
                      /\ UNCHANGED cache
                 ELSE /\ writers' = [writers EXCEPT !.of[w].pc = "wrote",
                                                    !.of[w].instructions = instructions]
                      /\ cache' = WriteCache(cache, path, instructions)
      /\ UNCHANGED <<run, started, edits, orphans, planned, exec, val, inflight>>

NextWriters == \E w \in 1..2 : WriterStarts(w) \/ WriterPlans(w)

SpecWriters == InitWriters /\ [][NextWriters]_vars

(***************************************************************************)
(* executeInstruction called on its own, on one instruction of each kind,  *)
(* with and without a page, under every answer of the page and resolver.   *)
(***************************************************************************)
With(action, id, params) == Instr(Num(id), Str(action), params, Str("step"))

ExecInstructions ==
  LET base ==
        {NavA, NavNoUrl, ClickLogin, Drag,
         With("navigate", 1, MissingParams),
         With("click", 2, [NoParams EXCEPT !.fallback_selector = Str("#login")]),
         With("click", 2, [NoParams EXCEPT !.semantic_locator = Str("login button")]),
         With("click", 2, NoParams),
         With("input", 3, [NoParams EXCEPT !.fallback_selector = Str("#kw"),
                                           !.semantic_locator = Str("search box"),
                                           !.value = Str("Playwright")]),
         With("input", 3, [NoParams EXCEPT !.fallback_selector = Str("#kw"),
                                           !.value = Str("Playwright")]),
         With("verify", 4, [NoParams EXCEPT !.assertion = Str("page shows \"Welcome\"")]),
         With("verify", 4, [NoParams EXCEPT !.assertion = Str("user is logged in")]),
         With("verify", 4, [NoParams EXCEPT
                              !.assertion = Str("page shows U+201CWelcomeU+201D")]),
         With("verify", 4, [NoParams EXCEPT
                              !.assertion = Str("title is 'Home' or 'Start'")]),
         With("wait", 5, [NoParams EXCEPT !.selector = Str("#content"),
                                          !.timeout = Num(120000)]),
         With("wait", 5, [NoParams EXCEPT !.condition = Str("networkidle")]),
         With("wait", 5, [NoParams EXCEPT !.timeout = Num(1000)]),
         With("wait", 5, [NoParams EXCEPT !.selector = Str("#content")]),
         With("wait", 5, [NoParams EXCEPT !.selector = Str("#content"),
                                          !.timeout = Num(0)]),
         With("wait", 5, [NoParams EXCEPT !.selector = Str("#content"),
                                          !.condition = Str("networkidle")]),
         With("wait", 5, [NoParams EXCEPT !.selector = Str("#content"),
                                          !.condition = Str("stable"),
                                          !.timeout = Num(1000)]),
         With("wait", 5, [NoParams EXCEPT !.condition = Str("networkidle"),
                                          !.timeout = Num(1000)]),
         With("wait", 5, [NoParams EXCEPT !.condition = Str("stable"),
                                          !.timeout = Num(1000)]),
         With("wait", 5, [NoParams EXCEPT !.condition = Str("stable")]),
         With("wait", 5, NoParams),
         With("input", 3, [NoParams EXCEPT !.semantic_locator = Str("search box"),
                                           !.value = Str("Playwright")]),
         With("input", 3, [NoParams EXCEPT !.value = Str("Playwright")]),
         With("select", 6, [NoParams EXCEPT !.fallback_selector = Str("#lang"),
                                            !.semantic_locator = Str("language menu"),
                                            !.value = Str("en")]),
         With("select", 6, [NoParams EXCEPT !.fallback_selector = Str("#lang"),
                                            !.value = Str("en")]),
         With("select", 6, [NoParams EXCEPT !.semantic_locator = Str("language menu"),
                                            !.value = Str("en")]),
         With("select", 6, [NoParams EXCEPT !.value = Str("en")]),
         With("hover", 7, [NoParams EXCEPT !.fallback_selector = Str("#menu")]),
         With("hover", 7, [NoParams EXCEPT !.fallback_selector = Str("#menu"),
                                           !.semantic_locator = Str("main menu")]),
         With("hover", 7, [NoParams EXCEPT !.semantic_locator = Str("main menu")]),
         With("hover", 7, NoParams),
         With("press", 8, [NoParams EXCEPT !.key = Str("Enter")]),
         With("scroll", 9, [NoParams EXCEPT !.direction = Str("down"),
                                            !.semantic_locator = Str("side bar")]),
         With("scroll", 9, [NoParams EXCEPT !.direction = Str("down")])}
  IN  base \cup {Marked(x) : x \in base}

InitExec ==
  /\ \E instruction \in ExecInstructions, hasPage \in BOOLEAN :
       exec = [pc |-> "called", instruction |-> instruction, hasPage |-> hasPage,
               env |-> NoEnv, result |-> NoResult]
  /\ run = IdleRun
  /\ cache = [path \in CachePaths |-> NoFile]
  /\ started = 0
  /\ edits = 0
  /\ orphans = 0
  /\ planned = {}
  /\ val = IdleVal
  /\ inflight = NoCalls
  /\ writers = NoWriters

\* One call of executeInstruction, from the call to its return or throw.
Execute ==
  /\ exec.pc = "called"
  /\ \E env \in EnvsFor(exec.instruction) :
       LET result == executeInstruction(exec.instruction,
                                        [hasPage |-> exec.hasPage], env)
       IN  exec' = [exec EXCEPT !.pc = IF result.raised THEN "raised" ELSE "returned",
                                !.env = env, !.result = result]
  /\ UNCHANGED <<run, cache, started, edits, orphans, planned, val, inflight, writers>>

NextExec == Execute

SpecExec == InitExec /\ [][NextExec]_vars

(***************************************************************************)
(* validateInstruction and validateInstructionStream called on their own:  *)
(* on instructions with each top-level field present, missing or of the    *)
(* wrong type and with params holding no, one or two fields, and on lists  *)
(* of at most MaxLen valid and invalid instructions.                       *)
(***************************************************************************)
ValStepIds == {Num(1), Num(0), Undef, Str("1")}
ValActions == {Str(a) : a \in SupportedSet} \cup {Undef, Str(""), Str("drag")}
ValDescriptions == {Str("step"), Str(""), Undef}

\* A value of the kind the planner's prompt documents for the field.
FieldValue(f) ==
  CASE f = "url" -> Str("https://a.test")
    [] f = "timeout" -> Num(1000)
    [] f = "direction" -> Str("down")
    [] f = "key" -> Str("Enter")
    [] OTHER -> Str("x")

BadValues == {Str(""), Null, Num(0), Num(7)}

ValParams ==
  {NoParams, MissingParams, [NoParams EXCEPT !.kind = "string"]}
  \cup UNION {{[NoParams EXCEPT ![f] = v] : v \in {FieldValue(f)} \cup BadValues} :
                f \in ParamFields}
  \cup {[NoParams EXCEPT ![f] = FieldValue(f), ![g] = FieldValue(g)] :
          f \in ParamFields, g \in ParamFields}

ValStreamInstructions ==
  {NavA, ClickLogin, Drag, NavNoUrl, [Drag EXCEPT !.step_id = Num(0)],
   [NavNoUrl EXCEPT !.step_id = Undef]}

InitValidate ==
  /\ \/ \E id \in ValStepIds, action \in ValActions, params \in ValParams,
           desc \in ValDescriptions :
          val = [IdleVal EXCEPT !.pc = "instruction",
                                !.instruction = Instr(id, action, params, desc)]
     \/ \E isArray \in BOOLEAN, list \in ListsUpTo(ValStreamInstructions, MaxLen) :
          val = [IdleVal EXCEPT !.pc = "stream", !.isArray = isArray, !.list = list]
  /\ run = IdleRun
  /\ cache = [path \in CachePaths |-> NoFile]
  /\ started = 0
  /\ edits = 0
  /\ orphans = 0
  /\ planned = {}
  /\ exec = IdleExec
  /\ inflight = NoCalls
  /\ writers = NoWriters

Validate ==
  /\ val.pc = "instruction"
  /\ val' = [val EXCEPT !.pc = "validated",
                        !.result = validateInstruction(val.instruction)]
  /\ UNCHANGED <<run, cache, started, edits, orphans, planned, exec, inflight, writers>>

ValidateStream ==
  /\ val.pc = "stream"
  /\ val' = [val EXCEPT !.pc = "streamValidated",
                        !.stream = validateInstructionStream(val.isArray, val.list)]
  /\ UNCHANGED <<run, cache, started, edits, orphans, planned, exec, inflight, writers>>

NextValidate == Validate \/ ValidateStream

SpecValidate == InitValidate /\ [][NextValidate]_vars

(***************************************************************************)
(* Properties of executeInstructionStream (checked under SpecStream).      *)
(***************************************************************************)
Failing(results) == {k \in 1..Len(results) : ~results[k].success}

\* The instructions executeInstruction was called on are the first m of the
\* list, in order.
ExecutedFirst(m) ==
  /\ Len(run.st.log) = m
  /\ \A j \in 1..m : run.st.log[j].index = j

\* C1: with stopOnError = true, when the first failing instruction is at
\* position k of n, exactly the first k instructions are executed, results
\* has exactly k entries, nothing after k is executed or reported, and
\* summary.total is still n.
C1_StopOnErrorStopsAtFirstFailure ==
  (run.pc = "returned" /\ run.st.stopOnError /\ Failing(run.st.results) # {}) =>
    LET k == CHOOSE j \in Failing(run.st.results) :
               \A l \in Failing(run.st.results) : j <= l
    IN  /\ Len(run.st.results) = k
        /\ ExecutedFirst(k)
        /\ run.summary.total = Len(run.instructions)

C1_Witness ==
  /\ run.pc = "returned" /\ run.st.stopOnError
  /\ Len(run.instructions) = 3
  /\ Len(run.st.results) = 2
  /\ run.st.results[1].success /\ ~run.st.results[2].success
  /\ run.summary.total = 3 /\ ~run.summary.allPassed

\* C2: with stopOnError = false every instruction is executed whatever the
\* earlier outcomes, results has one entry per input instruction, and
\* summary.fail and summary.success count the failed and the succeeded ones.
C2_ContinueOnErrorRunsAll ==
  (run.pc = "returned" /\ ~run.st.stopOnError) =>
    /\ Len(run.st.results) = Len(run.instructions)
    /\ ExecutedFirst(Len(run.instructions))
    /\ run.summary.fail = Cardinality({j \in 1..Len(run.st.log) : ~run.st.log[j].success})
    /\ run.summary.success = Cardinality({j \in 1..Len(run.st.log) : run.st.log[j].success})

C2_Witness ==
  /\ run.pc = "returned" /\ ~run.st.stopOnError
  /\ Len(run.instructions) = 3 /\ Len(run.st.results) = 3
  /\ ~run.st.results[2].success /\ run.st.results[3].success
  /\ run.summary.fail = 1

\* C3: summary.total is the length of the input list, allPassed is true
\* exactly when fail = 0 and success = total, and a run that stopped early
\* has allPassed = false.
C3_SummaryTotalAndAllPassed ==
  run.pc = "returned" =>
    /\ run.summary.total = Len(run.instructions)
    /\ run.summary.allPassed
         <=> (run.summary.fail = 0 /\ run.summary.success = run.summary.total)
    /\ Len(run.st.results) < Len(run.instructions) => ~run.summary.allPassed

C3_Witness ==
  /\ run.pc = "returned"
  /\ Len(run.st.results) < Len(run.instructions)
  /\ run.st.results[1].success
  /\ ~run.summary.allPassed

\* C4: results are reported in input order: results[i] carries the step_id
\* and description of instructions[i] and the outcome of executing it.
C4_ResultsInInputOrder ==
  run.pc \in {"stream", "returned"} =>
    /\ Len(run.st.results) <= Len(run.instructions)
    /\ ExecutedFirst(Len(run.st.results))
    /\ \A i \in 1..Len(run.st.results) :
         /\ run.st.results[i].step_id = run.instructions[i].step_id
         /\ run.st.results[i].description = run.instructions[i].description
         /\ run.st.results[i].success = run.st.log[i].success
         /\ run.st.results[i].error = run.st.log[i].error
         /\ run.st.log[i].handler \in {"none", HandlerOf(run.instructions[i].action_type)}

C4_Witness ==
  /\ run.pc = "returned"
  /\ run.instructions = <<NavA, ClickLogin, Drag>>
  /\ Len(run.st.results) = 3
  /\ run.st.results[3].step_id = Num(4)

(***************************************************************************)
(* Properties of executeInstruction (checked under SpecExec).              *)
(***************************************************************************)
\* What the handler of the executed instruction did under the answers drawn.
HandlerOutcome ==
  Dispatch(exec.instruction.action_type, [hasPage |-> exec.hasPage], exec.env,
           exec.instruction.params)

\* C5: executeInstruction never raises: whatever the instruction and the
\* context, an unsupported action_type and every exception of a handler,
\* the page or the resolver included, it returns a result, with
\* success = false and the error message when something failed.
C5_ExecutorNeverRaises ==
  /\ exec.pc # "raised"
  /\ (exec.pc = "returned" /\ ~exec.instruction.preNavigated) =>
       /\ HandlerOutcome.thrown =>
            (~exec.result.success /\ exec.result.error = HandlerOutcome.msg
               /\ exec.result.error # "")
       /\ ~HandlerOutcome.thrown => exec.result.success
       /\ HandlerOf(exec.instruction.action_type) = "none" => ~exec.result.success

C5_Witness ==
  /\ exec.pc = "returned"
  /\ exec.instruction = ClickLogin
  /\ exec.env.ai = "throw"
  /\ CountAiCalls(exec.result.calls) = 1
  /\ ~exec.result.success /\ exec.result.error = "ai error"

\* C6: an instruction carrying the pre-resolved flag returns success at once
\* without dispatch: no handler runs and neither the page nor the resolver
\* is called, whatever its action_type and params.
C6_PreResolvedSkipsDispatch ==
  (exec.pc # "called" /\ exec.instruction.preNavigated) =>
    /\ exec.pc = "returned"
    /\ exec.result.success
    /\ exec.result.result = "pre-navigated"
    /\ exec.result.handler = "none"
    /\ exec.result.calls = <<>>

C6_Witness ==
  /\ exec.pc = "returned"
  /\ exec.instruction = Marked(ClickLogin)
  /\ exec.result.success /\ exec.result.calls = <<>>


(***************************************************************************)
(* Properties of runWorkflow (checked under Spec).                         *)
(***************************************************************************)
\* The entry stored under the hash of the running call's prompt.
StoredList == JSONparse(cache[getCachePath(run.prompt)].text)

\* The page.goto calls of the run made for its first instruction: by
\* runWorkflow itself (index 0) or by the navigate handler (index 1).
FirstNavigations == {k \in 1..Len(run.gotos) : run.gotos[k].index <= 1}

\* C7: every instruction list that runWorkflow hands to
\* executeInstructionStream has passed validateInstructionStream, whether it
\* comes fresh from the planner or from a stored, possibly hand-edited,
\* cache entry.  The cache-hit branch never validates, so this fails.
C7_HandedListIsValidated ==
  run.viaWorkflow /\ run.pc = "stream" =>
    validateInstructionStream(TRUE, run.instructions).valid

\* C8: on a cache hit (caching enabled and an entry exists under the hash
\* of the prompt) runWorkflow never calls the planner, and the list it
\* executes is the stored one (its first instruction possibly marked).
C8_CacheHitNeverPlans ==
  run.viaWorkflow /\ run.hit =>
    /\ run.planCalls = 0
    /\ run.plan = "none"
    /\ run.pc \notin {"plan", "fork"}
    /\ run.pc \in {"hitNav", "stream"} =>
         \/ run.instructions = StoredList
         \/ Len(StoredList) > 0 /\ run.instructions = MarkFirst(StoredList)

C8_Witness ==
  /\ run.viaWorkflow /\ run.hit /\ run.pc = "returned"
  /\ run.planCalls = 0
  /\ Len(run.st.log) = Len(run.instructions)
  /\ Len(run.instructions) > 1

\* C9 as stated: on a cache hit whose first stored instruction is a
\* navigate, the run returns with that navigation performed exactly once,
\* by runWorkflow, the instruction marked and reported as success.  It
\* fails when the pre-navigation throws, and when there is no page or no
\* url.
C9_HitNavigatesExactlyOnce ==
  run.viaWorkflow /\ run.hit /\ FirstIsNavigate(run.instructions)
    /\ run.pc \in {"returned", "threw"} =>
      /\ run.pc = "returned"
      /\ Cardinality(FirstNavigations) = 1
      /\ run.gotos[1].index = 0
      /\ run.instructions[1].preNavigated
      /\ run.st.results[1].success

\* C9, corrected: on a cache hit whose first stored instruction is a
\* navigate with a url, in a context with a page, runWorkflow performs the
\* navigation before executeInstructionStream starts.  If it succeeds, the
\* instruction is marked, the stream reports it as success without calling
\* a handler or the page, and no other navigation is made for it.  If it
\* fails, runWorkflow throws and no instruction is executed.
C9_HitPreNavigation ==
  run.viaWorkflow /\ run.hit /\ FirstIsNavigate(run.instructions)
    /\ run.hasPage /\ Truthy(FirstUrlOf(run.instructions)) =>
      /\ run.pc = "hitNav" => run.gotos = <<>> /\ run.st.log = <<>>
      /\ run.pc \in {"stream", "returned"} =>
           /\ Len(run.gotos) >= 1
           /\ run.gotos[1] = Goto(0, FirstUrlOf(run.instructions), TRUE)
           /\ FirstNavigations = {1}
           /\ run.instructions[1].preNavigated
           /\ Len(run.st.log) >= 1 =>
                /\ run.st.log[1].handler = "none"
                /\ run.st.log[1].page = 0
                /\ run.st.results[1].success
      /\ run.pc = "threw" =>
           /\ run.gotos = <<Goto(0, FirstUrlOf(run.instructions), FALSE)>>
           /\ run.st.log = <<>>

C9_Witness ==
  /\ run.viaWorkflow /\ run.hit /\ run.pc = "returned"
  /\ FirstIsNavigate(run.instructions)
  /\ run.gotos = <<Goto(0, FirstUrlOf(run.instructions), TRUE)>>
  /\ run.st.log[1].handler = "none"
  /\ run.st.results[1].success

\* C10 as stated: once a caching run has planned a prompt and stored the
\* plan, every later call with that prompt is a cache hit and the planner
\* is not called for it again.  It fails for a later call with caching
\* disabled.
C10_LaterCallsAlwaysHit ==
  run.viaWorkflow /\ run.priorPlanned => run.hit /\ run.planCalls = 0

\* C10, corrected: once a caching run has planned a prompt and stored the
\* plan, the entry under the prompt's hash exists from then on, and every
\* later call with that prompt and caching enabled is a cache hit that
\* does not call the planner.
C10_EntryKeptAndLaterCachingCallsHit ==
  /\ \A p \in planned : cache[getCachePath(p)].exists
  /\ run.viaWorkflow /\ run.priorPlanned /\ run.useCache =>
       run.hit /\ run.planCalls = 0 /\ run.plan = "none"

C10_Witness ==
  /\ run.viaWorkflow /\ run.priorPlanned /\ run.useCache /\ run.hit
  /\ run.pc = "returned"
  /\ run.planCalls = 0
  /\ run.prompt \in planned


\* What holds of a run whose planning has failed.
PlanFailureOutcome ==
  run.viaWorkflow /\ run.plan = "failed" =>
    /\ run.pc = "threw"
    /\ run.planCalls = 1
    /\ run.st.log = <<>> /\ run.st.results = <<>>
    /\ run.useCache => ~cache[getCachePath(run.prompt)].exists

\* C11: when the planner fails, runWorkflow throws without calling the
\* planner again (it is called exactly once in the run), no instruction is
\* executed, and the step in which the planning fails writes no cache file.
C11_PlannerFailureRethrown ==
  /\ []PlanFailureOutcome
  /\ [][run'.plan = "failed" /\ run.plan # "failed" => cache' = cache]_vars

C11_Witness ==
  /\ run.viaWorkflow /\ run.plan = "failed" /\ run.pc = "threw"
  /\ run.planCalls = 1 /\ run.useCache


\* The running call missed the cache, its prompt holds a URL and its context
\* a page.
MissWithUrl ==
  /\ run.viaWorkflow /\ ~run.hit /\ run.hasPage
  /\ extractUrlFromPrompt(run.prompt) # Null

\* C12: on a cache miss with a URL in the prompt, the planning and the
\* navigation to that URL are started together, and the stream executes
\* nothing before both have completed.
C12_ForkJoinBeforeStream ==
  MissWithUrl =>
    /\ run.plan # "none" /\ run.nav # "none"
    /\ run.pc = "fork" => run.st.log = <<>>
    /\ run.pc \in {"stream", "returned"} \/ Len(run.st.log) > 0 =>
         /\ run.plan = "ok"
         /\ run.nav \in {"ok", "failed"}
         /\ Len(run.gotos) >= 1 /\ run.gotos[1].index = 0
         /\ run.gotos[1].url = extractUrlFromPrompt(run.prompt)

C12_Witness ==
  /\ MissWithUrl /\ run.pc = "returned"
  /\ run.plan = "ok" /\ run.nav = "ok"
  /\ Len(run.st.log) > 1

\* C13: on a cache miss, a failed pre-navigation never makes runWorkflow
\* throw: the call goes on waiting for the planning, throws only if the
\* planning fails, and otherwise runs the stream on the planned list.
C13_MissNavFailureSwallowed ==
  [][run.pc = "fork" /\ (run.nav = "failed" \/ run'.nav = "failed")
       /\ run' # run =>
     \/ run'.pc = "fork" /\ run.nav = "pending" /\ run.plan = "pending"
          /\ run'.plan = "pending"
     \/ run'.pc = "threw" /\ run.nav = "failed" /\ run'.plan = "failed"
     \/ /\ run'.pc = "stream" /\ run'.plan = "ok"
        /\ \E response \in PlannerResponses :
             /\ ~parseIntent(response).thrown
             /\ run'.instructions =
                  MarkAfterFork(parseIntent(response).instructions)]_vars

C13_Witness ==
  /\ MissWithUrl /\ run.pc = "returned"
  /\ run.plan = "ok" /\ run.nav = "failed"
  /\ Len(run.st.log) > 1


\* The summary counts the reported results and the input list.
WellFormedSummary ==
  /\ run.summary.total = Len(run.instructions)
  /\ run.summary.fail = Cardinality(Failing(run.st.results))
  /\ run.summary.success + run.summary.fail = Len(run.st.results)
  /\ run.summary.allPassed <=>
       run.summary.fail = 0 /\ run.summary.success = run.summary.total

\* C14: runWorkflow throws only when no instruction has been executed;
\* once executeInstructionStream has executed an instruction, failing steps
\* are reported in results and runWorkflow returns with a well-formed
\* summary.
C14_ThrowsOnlyBeforeStream ==
  run.viaWorkflow =>
    /\ ~run.st.raised
    /\ run.pc = "threw" => run.st.log = <<>> /\ run.st.results = <<>>
    /\ Len(run.st.log) > 0 => run.pc \in {"stream", "returned"}
    /\ run.pc = "returned" => WellFormedSummary

C14_Witness ==
  /\ run.viaWorkflow /\ run.pc = "returned"
  /\ Len(run.st.results) > 1
  /\ run.summary.fail > 0
  /\ \E k \in 1..Len(run.st.results) : run.st.results[k].error = "ai error"


\* The resolver call of the k-th executed instruction failed: the handler
\* threw the resolver's error, or (scroll) went on to scroll the page itself.
ResolverFailedAt(k) ==
  /\ run.st.log[k].ai > 0
  /\ \/ run.st.log[k].error = "ai error"
     \/ run.st.log[k].handler = "scroll"
          /\ (run.st.log[k].page > 0 \/ ~run.st.log[k].success)

Handled(action) ==
  /\ exec.pc # "called"
  /\ exec.instruction.action_type = Str(action)
  /\ ~exec.instruction.preNavigated
  /\ exec.instruction.params.kind = "object"

HasFallback == Truthy(exec.instruction.params.fallback_selector)
HasSemantic == Truthy(exec.instruction.params.semantic_locator)

Interactive == {"click", "input", "select", "hover"}

\* The Playwright action a handler performs on a visible element.
NativeAction(action) ==
  CASE action = "click" -> "click"
    [] action = "input" -> "fill"
    [] action = "select" -> "selectOption"
    [] action = "hover" -> "hover"

\* The element is in the DOM but not visible, and the page answers.
PresentButHidden ==
  /\ exec.hasPage /\ exec.env.present /\ ~exec.env.visible
  /\ exec.env.fail = "none"

\* The deterministic tier cannot succeed: there is no page, the element
\* never attaches, or the native action on the visible element throws.
DeterministicFails(action) ==
  \/ ~exec.hasPage
  \/ ~exec.env.present
  \/ exec.env.visible /\ exec.env.fail = NativeAction(action)

\* C16: the click handler, on a fallback_selector whose element is present
\* in the DOM but not visible, clicks by dispatching the event (no native
\* click) and does not call the resolver, with or without a
\* semantic_locator.
C16_HiddenElementForcedClick ==
  Handled("click") /\ HasFallback /\ PresentButHidden =>
    /\ exec.result.success
    /\ exec.result.calls = <<"waitFor", "visible.count", "count", "dispatchEvent">>
    /\ CountAiCalls(exec.result.calls) = 0

C16_Witness ==
  /\ Handled("click") /\ HasFallback /\ HasSemantic /\ PresentButHidden
  /\ exec.result.success
  /\ exec.env.ai = "throw"

\* C17: for click, input, hover and select with both locators, a failure
\* of the deterministic tier is not raised: the handler calls the resolver
\* once, and the step succeeds exactly when that call succeeds.
C17_DeterministicFailureEscalates ==
  \A action \in Interactive :
    Handled(action) /\ HasFallback /\ HasSemantic =>
      /\ ~exec.result.raised
      /\ CountAiCalls(exec.result.calls) <= 1
      /\ CountAiCalls(exec.result.calls) = 0 => exec.result.success
      /\ CountAiCalls(exec.result.calls) = 1 =>
           /\ exec.result.calls[Len(exec.result.calls)] = "ai"
           /\ exec.result.success <=> exec.env.ai # "throw"
      /\ DeterministicFails(action) => CountAiCalls(exec.result.calls) = 1

C17_Witness ==
  /\ Handled("select") /\ HasFallback /\ HasSemantic
  /\ exec.hasPage /\ exec.env.visible /\ exec.env.fail = "selectOption"
  /\ exec.result.calls = <<"selectOption", "ai">>
  /\ ~exec.result.success /\ exec.result.error = "ai error"

\* C18: for click, input, hover and select without a semantic_locator,
\* when there is no fallback_selector or the deterministic tier fails, the
\* step fails with the handler's resolution error as a result with
\* success = false; executeInstruction does not raise and the resolver is
\* not called.
C18_NoTierIsAFailedResult ==
  \A action \in Interactive :
    Handled(action) /\ ~HasSemantic
      /\ (~HasFallback \/ DeterministicFails(action)) =>
        /\ ~exec.result.raised
        /\ ~exec.result.success
        /\ exec.result.error \in
             {"click failed: neither Playwright nor AI available",
              "input failed: neither Playwright nor AI available",
              "select failed: neither Playwright nor AI available",
              "hover failed: neither Playwright nor AI available"}
        /\ CountAiCalls(exec.result.calls) = 0

C18_Witness ==
  /\ Handled("input") /\ ~HasSemantic /\ HasFallback
  /\ exec.hasPage /\ ~exec.env.present
  /\ ~exec.result.success /\ ~exec.result.raised
  /\ exec.result.error = "input failed: neither Playwright nor AI available"

\* C19: input, hover and select, on a fallback_selector whose element is
\* present in the DOM but not visible, perform their action without the
\* resolver.  handleSelect and handleHover have no such path: the native
\* action fails on the hidden element and the resolver is called.
C19_HiddenElementForcedEverywhere ==
  \A action \in {"input", "hover", "select"} :
    Handled(action) /\ HasFallback /\ PresentButHidden =>
      /\ exec.result.success
      /\ CountAiCalls(exec.result.calls) = 0


\* The non-empty texts between an opening quotation mark lq and the next
\* closing mark rq, from position from on.
RECURSIVE PairedFrom(_, _, _, _)
PairedFrom(toks, lq, rq, from) ==
  LET open == IndexFrom(toks, lq, from)
      close == IF open = 0 THEN 0 ELSE IndexFrom(toks, rq, open + 1)
  IN  IF open = 0 \/ close = 0 THEN {}
      ELSE (IF close > open + 1 THEN {SubSeq(toks, open + 1, close - 1)} ELSE {})
           \cup PairedFrom(toks, lq, rq, close + 1)

\* The quoted keywords of an assertion text, in English quotes (' and ")
\* or in Chinese quotes.
QuotedKeywords(assertion) ==
  LET toks == Tokens(assertion.s)
  IN  PairedFrom(toks, SQ, SQ, 1) \cup PairedFrom(toks, DQ, DQ, 1)
        \cup PairedFrom(toks, LDQ, RDQ, 1)

OnPage(keywords) ==
  \E kw \in keywords : kw \in exec.env.text \/ kw \in exec.env.markup

\* A verify has been executed on a page whose calls answer.
VerifiedOnPage ==
  /\ Handled("verify") /\ IsString(exec.instruction.params.assertion)
  /\ exec.hasPage /\ exec.env.fail = "none"

\* C20: the verify handler passes without calling the resolver whenever a
\* quoted keyword of the assertion occurs in the page's text or markup, and
\* calls the resolver for every assertion without a quoted substring.  It
\* fails for a keyword in Chinese quotes, which the patterns do not match.
C20_QuotedKeywordPassesWithoutResolver ==
  VerifiedOnPage =>
    /\ OnPage(QuotedKeywords(exec.instruction.params.assertion)) =>
         exec.result.success /\ CountAiCalls(exec.result.calls) = 0
    /\ QuotedKeywords(exec.instruction.params.assertion) = {} =>
         CountAiCalls(exec.result.calls) = 1

\* The same for the keywords the patterns do match, those in English
\* quotes: this holds.
VerifyEnglishQuotedKeywordPasses ==
  VerifiedOnPage =>
    /\ OnPage(extractKeywordsFromAssertion(exec.instruction.params.assertion)) =>
         /\ exec.result.success /\ exec.result.result = "true"
         /\ CountAiCalls(exec.result.calls) = 0
    /\ extractKeywordsFromAssertion(exec.instruction.params.assertion) = {} =>
         CountAiCalls(exec.result.calls) = 1


\* C21: when the verify handler has called the resolver and the resolver
\* returned a value, the step fails, as an assertion failure, exactly when
\* the value is false; true and the other falsy values make it succeed.
C21_OnlyExplicitFalseFails ==
  Handled("verify") /\ CountAiCalls(exec.result.calls) = 1
    /\ exec.env.ai # "throw" =>
      /\ ~exec.result.raised
      /\ exec.result.success <=> exec.env.ai # "false"
      /\ exec.env.ai = "false" => exec.result.error = "assertion failed"
      /\ exec.env.ai # "false" => exec.result.result = exec.env.ai

C21_Witness ==
  /\ Handled("verify") /\ CountAiCalls(exec.result.calls) = 1
  /\ exec.env.ai = "falsy"
  /\ exec.result.success


\* C22: the wait handler, on a selector that does not become visible
\* within its timeout, waits for the document to be parsed and then for a
\* fixed 500 ms, and the step succeeds; the selector's timeout is not
\* thrown.
C22_SelectorTimeoutDegrades ==
  Handled("wait") /\ Truthy(exec.instruction.params.selector)
    /\ exec.hasPage /\ ~exec.env.visible
    /\ exec.env.fail # "waitForTimeout" =>
      /\ exec.result.success /\ ~exec.result.raised
      /\ exec.result.calls = <<"waitFor", "waitForLoadState", "waitForTimeout">>
      /\ Len(exec.result.ms) = 2 /\ exec.result.ms[2] = 500

C22_Witness ==
  /\ Handled("wait") /\ Truthy(exec.instruction.params.selector)
  /\ exec.hasPage /\ ~exec.env.present /\ exec.env.fail = "waitForLoadState"
  /\ exec.result.success
  /\ exec.result.ms = <<3000, 500>>


\* C23: the scroll handler calls the resolver first when a
\* semantic_locator is given; when that call fails, or when no
\* semantic_locator is given, it scrolls the page itself through
\* page.evaluate, and the step then succeeds exactly when that call does:
\* a resolver failure alone does not fail the step.
C23_ScrollFallsBackToPage ==
  Handled("scroll") =>
    /\ ~exec.result.raised
    /\ HasSemantic =>
         /\ Len(exec.result.calls) >= 1 /\ exec.result.calls[1] = "ai"
         /\ exec.env.ai # "throw" =>
              exec.result.success /\ exec.result.calls = <<"ai">>
    /\ ~HasSemantic => CountAiCalls(exec.result.calls) = 0
    /\ ~HasSemantic \/ exec.env.ai = "throw" =>
         /\ exec.hasPage =>
              exec.result.calls[Len(exec.result.calls)] = "evaluate"
         /\ exec.result.success <=> exec.hasPage /\ exec.env.fail # "evaluate"

C23_Witness ==
  /\ Handled("scroll") /\ HasSemantic /\ exec.env.ai = "throw"
  /\ exec.result.calls = <<"ai", "evaluate">>
  /\ exec.result.success


(***************************************************************************)
(* Properties of validateInstruction and validateInstructionStream         *)
(* (checked under SpecValidate).                                           *)
(***************************************************************************)
Validated == val.pc = "validated"

ActionOf(instruction) ==
  IF IsString(instruction.action_type) /\ instruction.action_type.s \in SupportedSet
    THEN instruction.action_type.s
    ELSE "none"

Absent(v) == v = Undef

NoLocator(params) == Absent(params.semantic_locator) /\ Absent(params.fallback_selector)

\* A required field of the instruction's action type is absent from its
\* params.
LacksActionField(instruction) ==
  LET action == ActionOf(instruction)
      params == instruction.params
  IN  /\ ParamsTruthy(params)
      /\ CASE action = "navigate" -> Absent(params.url)
            [] action \in {"click", "hover"} -> NoLocator(params)
            [] action \in {"input", "select"} ->
                 NoLocator(params) \/ Absent(params.value)
            [] action = "verify" -> Absent(params.assertion)
            [] action = "wait" ->
                 Absent(params.timeout) /\ Absent(params.selector)
                   /\ Absent(params.condition)
            [] action = "press" -> Absent(params.key)
            [] action = "scroll" -> Absent(params.direction)
            [] OTHER -> FALSE

LacksTopLevelField(instruction) ==
  \/ Absent(instruction.step_id)
  \/ Absent(instruction.action_type)
  \/ instruction.params.kind = "undefined"
  \/ Absent(instruction.description)

\* C24: validateInstruction returns valid=false with at least one error
\* message for every instruction from which a required top-level field or a
\* required field of its action type is absent.
C24_MissingFieldIsRejected ==
  Validated /\ (LacksTopLevelField(val.instruction) \/ LacksActionField(val.instruction)) =>
    /\ val.result.valid = FALSE
    /\ Len(val.result.errors) >= 1

\* Only a field of the action type is missing; the top-level fields are
\* all well formed.
C24_Witness ==
  /\ Validated
  /\ val.instruction.step_id = Num(1) /\ val.instruction.description = Str("step")
  /\ val.instruction.action_type = Str("select")
  /\ val.instruction.params = [NoParams EXCEPT !.fallback_selector = Str("x")]
  /\ val.result = [valid |-> FALSE, errors |-> <<"select: value required">>]


\* The params holding exactly the fields that the action type requires, with
\* values of the documented kind.
MinimalParams(action) ==
  LET one(f) == [NoParams EXCEPT ![f] = FieldValue(f)]
      two(f, g) == [NoParams EXCEPT ![f] = FieldValue(f), ![g] = FieldValue(g)]
  IN  CASE action = "navigate" -> {one("url")}
        [] action \in {"click", "hover"} ->
             {one("semantic_locator"), one("fallback_selector")}
        [] action \in {"input", "select"} ->
             {two("semantic_locator", "value"), two("fallback_selector", "value")}
        [] action = "verify" -> {one("assertion")}
        [] action = "wait" -> {one("timeout"), one("selector"), one("condition")}
        [] action = "press" -> {one("key")}
        [] action = "scroll" -> {one("direction")}
        [] OTHER -> {}

MinimallyValid(instruction) ==
  /\ instruction.step_id.t = "number"
  /\ IsString(instruction.description) /\ instruction.description.s # ""
  /\ instruction.params \in MinimalParams(ActionOf(instruction))

\* C25: for each of the nine supported action types, an instruction with a
\* numeric step_id, a non-empty description and exactly the minimal
\* required params of the type passes validateInstruction with valid=true
\* and an empty errors list.
C25_MinimalInstructionPasses ==
  Validated /\ MinimallyValid(val.instruction) =>
    val.result = [valid |-> TRUE, errors |-> <<>>]

C25_Witness ==
  /\ Validated /\ MinimallyValid(val.instruction)
  /\ val.instruction.action_type = Str("hover")
  /\ val.instruction.step_id = Num(0)
  /\ Truthy(val.instruction.params.fallback_selector)
  /\ val.result.valid


Empty(v) == v \in {Undef, Null, Str(""), Num(0)}

\* The top-level rules an instruction breaks, each named by its message.
BrokenTopLevel(instruction) ==
  {m \in {"step_id must be a number", "action_type must not be empty",
           "unsupported action_type", "params must be an object",
           "description must be a non-empty string"} :
     \/ m = "step_id must be a number" /\ instruction.step_id.t # "number"
     \/ m = "action_type must not be empty"
          /\ Empty(instruction.action_type)
     \/ m = "unsupported action_type"
          /\ ~Empty(instruction.action_type)
          /\ ActionOf(instruction) = "none"
     \/ m = "params must be an object" /\ instruction.params.kind # "object"
     \/ m = "description must be a non-empty string"
          /\ (~IsString(instruction.description) \/ instruction.description.s = "")}

\* The rules of its action type that an instruction with params breaks.
BrokenPerAction(instruction) ==
  LET action == ActionOf(instruction)
      params == instruction.params
      noLocator == Empty(params.semantic_locator) /\ Empty(params.fallback_selector)
  IN  IF params.kind = "undefined" THEN {}
      ELSE
        {m \in {"navigate: url required", "click/hover: locator required",
                 "input: locator required", "input: value required",
                 "verify: assertion required",
                 "wait: timeout, selector or condition required",
                 "select: locator required", "select: value required",
                 "press: key required", "scroll: direction required"} :
           \/ m = "navigate: url required" /\ action = "navigate"
                /\ (Empty(params.url) \/ ~IsString(params.url))
           \/ m = "click/hover: locator required" /\ action \in {"click", "hover"}
                /\ noLocator
           \/ m = "input: locator required" /\ action = "input" /\ noLocator
           \/ m = "input: value required" /\ action = "input"
                /\ params.value \in {Undef, Null}
           \/ m = "verify: assertion required" /\ action = "verify"
                /\ (Empty(params.assertion) \/ ~IsString(params.assertion))
           \/ m = "wait: timeout, selector or condition required" /\ action = "wait"
                /\ Empty(params.timeout) /\ Empty(params.selector)
                /\ Empty(params.condition)
           \/ m = "select: locator required" /\ action = "select" /\ noLocator
           \/ m = "select: value required" /\ action = "select" /\ Empty(params.value)
           \/ m = "press: key required" /\ action = "press"
                /\ (Empty(params.key) \/ ~IsString(params.key))
           \/ m = "scroll: direction required" /\ action = "scroll"
                /\ Empty(params.direction)}

Reported(errors) == {errors[k] : k \in 1..Len(errors)}

\* C26: the errors list of validateInstruction holds one message for each
\* rule the instruction breaks, top-level rules and the rules of its action
\* type alike, and no other message; the rules of the action type are those
\* on the fields of a params value that is present.
C26_AllViolationsReported ==
  Validated =>
    /\ Reported(val.result.errors)
         = BrokenTopLevel(val.instruction) \cup BrokenPerAction(val.instruction)
    /\ Len(val.result.errors)
         = Cardinality(BrokenTopLevel(val.instruction))
             + Cardinality(BrokenPerAction(val.instruction))

\* Two top-level rules and two rules of the action type broken at once.
C26_Witness ==
  /\ Validated
  /\ val.instruction = Instr(Str("1"), Str("input"), NoParams, Str(""))
  /\ val.result.errors =
       <<"step_id must be a number", "description must be a non-empty string",
         "input: locator required", "input: value required">>


StreamValidated == val.pc = "streamValidated"

Invalid(list) == {i \in 1..Len(list) : ~validateInstruction(list[i]).valid}

\* The positions of the invalid instructions of the list, in input order.
RECURSIVE InvalidInOrder(_, _)
InvalidInOrder(list, i) ==
  IF i > Len(list) THEN <<>>
  ELSE (IF i \in Invalid(list) THEN <<i>> ELSE <<>>) \o InvalidInOrder(list, i + 1)

\* Every part of the claim but the step_id carried by an entry.
StreamVerdict ==
  StreamValidated =>
    LET at == InvalidInOrder(val.list, 1)
        errors == val.stream.errors
    IN  /\ ~val.isArray \/ val.list = <<>> => ~val.stream.valid
        /\ val.isArray /\ val.list # <<>> =>
             /\ val.stream.valid <=> Invalid(val.list) = {}
             /\ Len(errors) = Len(at)
             /\ \A k \in 1..Len(at) :
                  errors[k].errors = validateInstruction(val.list[at[k]]).errors

\* C27: validateInstructionStream rejects a non-array and an empty array,
\* and otherwise returns valid=true exactly when every instruction is
\* valid; its errors list has exactly one entry per invalid instruction, in
\* input order, carrying that instruction's own step_id and its error list
\* (an instruction that has no step_id has none to carry).
C27_StreamErrorsCarryOwnStepId ==
  /\ StreamVerdict
  /\ StreamValidated /\ val.isArray /\ val.list # <<>> =>
       LET at == InvalidInOrder(val.list, 1)
       IN  \A k \in 1..Len(at) :
             ~Absent(val.list[at[k]].step_id) =>
               k <= Len(val.stream.errors)
                 /\ val.stream.errors[k].step_id = val.list[at[k]].step_id

\* An invalid instruction whose step_id is the number 0 is reported under
\* the step_id 'unknown'.
StepIdZeroReportedUnknown ==
  /\ StreamValidated /\ val.isArray /\ Len(val.list) >= 1
  /\ val.list[1].step_id = Num(0) /\ ~validateInstruction(val.list[1]).valid
  /\ val.stream.errors[1].step_id = Str("unknown")


(***************************************************************************)
(* Further properties of runWorkflow (checked under Spec).                 *)
(***************************************************************************)
\* The step of a cache miss in which runWorkflow writes its list.
WritesEntry == run.pc \in {"plan", "fork"} /\ run'.pc = "stream" /\ run'.useCache

PlannedRunPassed ==
  /\ run.viaWorkflow /\ run.pc = "returned"
  /\ ~run.hit /\ run.plan = "ok"
  /\ validateInstructionStream(TRUE, run.instructions).valid
  /\ run.st.stopOnError
  /\ Failing(run.st.results) = {}

\* C29: when the planner returns a valid list of n instructions and every
\* step succeeds, runWorkflow returns n results, one per instruction in
\* order, and a summary with total = n, success = n, fail = 0 and
\* allPassed = true.
C29_EndToEndAllPassed ==
  PlannedRunPassed =>
    /\ Len(run.st.results) = Len(run.instructions)
    /\ \A k \in 1..Len(run.st.results) :
         /\ run.st.results[k].success
         /\ run.st.results[k].step_id = run.instructions[k].step_id
    /\ run.summary = [total |-> Len(run.instructions),
                       success |-> Len(run.instructions),
                       fail |-> 0, allPassed |-> TRUE]

\* Two planned instructions, both executed against the page.
C29_Witness ==
  /\ PlannedRunPassed
  /\ run.instructions = <<ClickLogin, PressEnter>>
  /\ run.summary.total = 2 /\ run.summary.allPassed


(***************************************************************************)
(* Property of the loop of executeInstructionStream (checked under         *)
(* SpecAwait).                                                             *)
(***************************************************************************)
\* C30: within executeInstructionStream at most one call of
\* executeInstruction is pending at any time, and while the call for
\* instruction j is pending every earlier instruction has returned its
\* result: instruction i+1 starts only after instruction i has returned.
C30_OneInstructionAtATime ==
  /\ Cardinality(inflight.pending) <= 1
  /\ \A j \in inflight.pending :
       /\ j = run.st.i
       /\ Len(run.st.results) = j - 1
       /\ Len(run.st.log) = j - 1

\* The second instruction is running after the first has returned a
\* failure.
C30_Witness ==
  /\ inflight.pending = {2}
  /\ Len(run.st.results) = 1 /\ ~run.st.results[1].success


(***************************************************************************)
(* Further property of executeInstructionStream (checked under             *)
(* SpecStream).                                                            *)
(***************************************************************************)
\* The loop was left by break or by an exception at its last step.
LeftAtLastStep ==
  \/ run.st.raised
  \/ /\ Len(run.st.log) > 0
     /\ ~run.st.log[Len(run.st.log)].success
     /\ run.st.stopOnError

\* C31: with stepDelay > 0 executeInstructionStream has slept once after
\* every executed step that did not end the loop, failed or successful, so
\* that a sleep lies between every two consecutive executed steps; with
\* stepDelay = 0 it has not slept at all.
C31_SleepsBetweenSteps ==
  /\ run.st.stepDelay = 0 => run.st.sleeps = 0
  /\ run.st.stepDelay > 0 =>
       /\ run.st.sleeps >= Len(run.st.log) - 1
       /\ run.st.sleeps = IF LeftAtLastStep THEN Len(run.st.log) - 1
                          ELSE Len(run.st.log)

\* A failed first step, a sleep, and a second step.
C31_Witness ==
  /\ run.st.stepDelay > 0 /\ ~run.st.stopOnError
  /\ Len(run.st.log) = 2 /\ ~run.st.log[1].success
  /\ run.st.sleeps = 2


(***************************************************************************)
(* Property of two concurrent runWorkflow calls (checked under             *)
(* SpecWriters).                                                           *)
(***************************************************************************)
BothWrote == \A w \in 1..2 : writers.of[w].pc = "wrote"

WrittenEntry == JSONparse(cache[getCachePath(writers.prompt)].text)

\* C32: when two runWorkflow calls for the same prompt both miss the cache
\* and both write, the resulting entry equals the entry that either call
\* alone would have written, which is the list the call itself holds.
C32_CollidingWritesAreEquivalent ==
  BothWrote => \A w \in 1..2 : WrittenEntry = writers.of[w].instructions

\* After both writes the entry is the list of one of the two calls.
EntryIsOneWritersList ==
  BothWrote => \E w \in 1..2 : WrittenEntry = writers.of[w].instructions

\* The planner gave both calls the same list, one call has a page and the
\* other has none, and the entry differs from the list of one of them.
WritersDisagreeOnMark ==
  /\ BothWrote
  /\ writers.of[1].hasPage /\ ~writers.of[2].hasPage
  /\ writers.of[1].instructions = <<Marked(NavA), ClickLogin>>
  /\ writers.of[2].instructions = <<NavA, ClickLogin>>
  /\ WrittenEntry # writers.of[1].instructions


(***************************************************************************)
(* Further properties of runWorkflow and of the handlers.                  *)
(***************************************************************************)
\* The reported steps that the Executor skipped as pre-resolved.
Skipped == {k \in 1..Len(run.st.results) : run.st.results[k].result = "pre-navigated"}

\* runWorkflow itself navigated to the url, successfully.
NavigatedTo(url) ==
  \E g \in 1..Len(run.gotos) :
    run.gotos[g].index = 0 /\ run.gotos[g].ok /\ run.gotos[g].url = url

\* C33: whenever the Executor skips an instruction as pre-resolved inside
\* a runWorkflow run, runWorkflow has, earlier in the same run, navigated
\* to that instruction's own params.url, and that navigation succeeded.
C33_SkippedMeansNavigated ==
  run.viaWorkflow =>
    \A k \in Skipped : NavigatedTo(run.instructions[k].params.url)

\* On a cache miss the forked navigation failed, was swallowed, and the
\* first navigate was skipped all the same.
SkippedAfterFailedNavigation ==
  /\ run.viaWorkflow /\ ~run.hit /\ run.nav = "failed"
  /\ 1 \in Skipped
  /\ ~NavigatedTo(run.instructions[1].params.url)

\* On a cache hit without a page the stored mark made the Executor skip
\* the first navigate although the run navigated nowhere.
SkippedFromStoredMark ==
  /\ run.viaWorkflow /\ run.hit /\ ~run.hasPage
  /\ 1 \in Skipped
  /\ run.gotos = <<>>


\* C34: the cache entry written on a cache miss carries no pre-resolved
\* mark on any instruction: it is the list as the planner returned it.
C34_PersistedEntryIsUnmarked ==
  [][WritesEntry =>
       LET entry == JSONparse(cache'[getCachePath(run'.prompt)].text)
       IN  \A k \in 1..Len(entry) : ~entry[k].preNavigated]_vars

\* The entry just written on a cache miss holds a marked first navigate.
PersistedMark ==
  /\ run.viaWorkflow /\ run.pc = "stream" /\ ~run.hit /\ run.useCache
  /\ run.st.i = 1
  /\ Len(StoredList) > 0 /\ StoredList[1].preNavigated


\* The branch of the wait handler that the page calls of the execution
\* show: the selector branch starts with locator.waitFor, the others differ
\* in what follows waitForLoadState.
BranchTaken ==
  LET calls == exec.result.calls
  IN  CASE calls = <<>> -> "none"
        [] calls # <<>> /\ calls[1] = "waitFor" -> "selector"
        [] calls = <<"waitForLoadState">> -> "networkidle"
        [] calls = <<"waitForLoadState", "waitForTimeout">> -> "condition"
        [] calls = <<"waitForTimeout">> -> "timeout"
        [] OTHER -> "several"

WaitParams == exec.instruction.params

\* C35: the wait handler takes one branch, chosen in the priority selector
\* > condition 'networkidle' > any other condition > bare timeout: with a
\* selector the condition plays no part, the bare timeout sleep happens
\* only when neither selector nor condition is given, and a wait with none
\* of the three calls nothing.
C35_WaitBranchPriority ==
  Handled("wait") /\ exec.hasPage =>
    /\ BranchTaken # "several"
    /\ Truthy(WaitParams.selector) => BranchTaken = "selector"
    /\ BranchTaken = "networkidle" =>
         ~Truthy(WaitParams.selector) /\ WaitParams.condition = Str("networkidle")
    /\ BranchTaken = "condition" =>
         /\ ~Truthy(WaitParams.selector) /\ Truthy(WaitParams.condition)
         /\ WaitParams.condition # Str("networkidle")
    /\ BranchTaken = "timeout" <=>
         /\ ~Truthy(WaitParams.selector) /\ ~Truthy(WaitParams.condition)
         /\ Truthy(WaitParams.timeout)
    /\ BranchTaken = "none" <=>
         /\ ~Truthy(WaitParams.selector) /\ ~Truthy(WaitParams.condition)
         /\ ~Truthy(WaitParams.timeout)

\* A selector and the condition 'networkidle' together: the selector
\* branch alone runs.
C35_Witness ==
  /\ Handled("wait") /\ exec.hasPage
  /\ Truthy(WaitParams.selector) /\ WaitParams.condition = Str("networkidle")
  /\ exec.result.calls = <<"waitFor">>
  /\ exec.result.success


\* C36: for a wait instruction with a selector the visibility wait gets
\* the timeout min(timeout or 5000, 3000) ms: the instruction's own timeout
\* when it is a positive number below 3000, and 3000 otherwise, never more.
C36_SelectorWaitCapped ==
  Handled("wait") /\ exec.hasPage /\ Truthy(WaitParams.selector) =>
    /\ Len(exec.result.ms) >= 1
    /\ exec.result.ms[1] <= 3000
    /\ exec.result.ms[1] =
         IF WaitParams.timeout.t = "number" /\ WaitParams.timeout.n > 0
              /\ WaitParams.timeout.n < 3000
           THEN WaitParams.timeout.n
           ELSE 3000

\* The 120000 ms of the image-preview test become 3000 ms.
C36_Witness ==
  /\ Handled("wait") /\ exec.hasPage /\ Truthy(WaitParams.selector)
  /\ WaitParams.timeout = Num(120000)
  /\ exec.env.visible /\ exec.result.success
  /\ exec.result.ms = <<3000>>


\* The page calls by which the deterministic tier of an action acts on the
\* element.
ActingCalls(action) ==
  CASE action = "click" -> {"click", "dispatchEvent"}
    [] action = "input" -> {"fill", "evaluate"}
    [] action = "select" -> {"selectOption"}
    [] action = "hover" -> {"hover"}
    [] OTHER -> {}

\* The deterministic attempt completed its action: the acting call was
\* made and did not throw (selectOption and hover throw on an element that
\* is not visible).
DeterministicCompleted(action) ==
  \E k \in 1..Len(exec.result.calls) :
    /\ exec.result.calls[k] \in ActingCalls(action)
    /\ exec.env.fail # exec.result.calls[k]
    /\ action \in {"select", "hover"} => exec.env.visible

\* C37: one execution of an instruction calls the semantic resolver at
\* most once; for click, input, hover and select it calls it only if no
\* fallback_selector was given or the deterministic attempt did not
\* complete its action; navigate, wait and press never call it.
C37_ResolverCalledAtMostOnce ==
  exec.pc # "called" =>
    /\ CountAiCalls(exec.result.calls) <= 1
    /\ \A action \in Interactive :
         Handled(action) /\ CountAiCalls(exec.result.calls) = 1 =>
           ~HasFallback \/ ~DeterministicCompleted(action)
    /\ \A action \in {"navigate", "wait", "press"} :
         Handled(action) => CountAiCalls(exec.result.calls) = 0

\* A click whose element is not in the page: the deterministic tier finds
\* nothing and the resolver is called once.
C37_Witness ==
  /\ Handled("click") /\ HasFallback /\ HasSemantic
  /\ exec.result.calls = <<"waitFor", "visible.count", "count", "ai">>
  /\ exec.result.success


\* A caching run that missed the cache and whose planning succeeded has
\* reached executeInstructionStream, and no cache file was edited by hand.
PlannedAndStored ==
  /\ run.viaWorkflow /\ ~run.hit /\ run.useCache /\ run.plan = "ok"
  /\ run.pc \in {"stream", "returned"}
  /\ edits = 0

\* The step in which runWorkflow is called again with the same prompt and
\* caching enabled, right after such a run has returned.
CalledAgain ==
  /\ PlannedAndStored /\ run.pc = "returned"
  /\ started' = started + 1
  /\ run'.prompt = run.prompt /\ run'.useCache

StoredListExecutedAgain ==
  /\ run.viaWorkflow /\ run.hit /\ run.priorPlanned /\ edits = 0
  /\ started = 2 /\ run.pc = "returned"
  /\ run.planCalls = 0
  /\ run.instructions = StoredList /\ Len(run.st.log) = 2


\* C39: when runWorkflow has settled, by returning or by throwing, the
\* navigation it started next to the planning is not pending any more.
C39_NoNavigationInFlightWhenSettled ==
  run.viaWorkflow /\ run.pc \in {"returned", "threw"} => run.nav # "pending"

\* The planning failed while the forked page.goto was pending: runWorkflow
\* has thrown and the navigation is still in flight.
ThrewWithNavigationInFlight ==
  /\ run.viaWorkflow /\ run.pc = "threw"
  /\ run.plan = "failed" /\ run.nav = "pending"
  /\ orphans > 0

\* A run that returns has joined its navigation.
ReturnedMeansJoined ==
  run.viaWorkflow /\ run.pc \in {"stream", "returned"} => run.nav # "pending"

====
